---- MODULE Spec2Model ----
(***************************************************************************)
(* A model of the VASP OUTCAR parser of pyiron_atomistics                  *)
(* (pyiron_atomistics/vasp/outcar.py).                                     *)
(*                                                                         *)
(* Text is modelled at character level: a line is a TLA+ string, and the   *)
(* Python string methods the parser uses (strip, split, replace, the `in`  *)
(* substring test) are operators over strings.  The line buffer `lines`    *)
(* is a sequence of strings, 1-indexed in TLA+; every index that the       *)
(* parser computes or returns is kept 0-indexed as in the source.          *)
(*                                                                         *)
(* The module also models the job that generates special quasirandom       *)
(* structures (pyiron_atomistics/atomistics/job/sqs.py): the conversion of *)
(* mole fractions to atom counts, run_static and the reload of the input.  *)
(***************************************************************************)
EXTENDS Integers, Sequences, FiniteSets, TLC

VARIABLES
    pc,               \* position of the call under study: "start" | "done"
    ind_ionic_lst,    \* _split_indices: argument ind_ionic_lst
    ind_elec_lst,     \* _split_indices: argument ind_elec_lst
    ind_combo_lst,    \* _split_indices: returned nested list
    lines,            \* the line buffer (f.readlines())
    trigger,          \* _get_trigger: argument trigger
    trigger_indices,  \* _get_trigger: returned pair <<indices, lines>>
    line,             \* _clean_line: argument line
    cleaned,          \* _clean_line: returned string
    si_unit,          \* get_stresses: argument si_unit
    stress_result,    \* get_stresses: outcome (exception or returned array)
    written,          \* the log as the simulation wrote it, before any damage
    damaged_line,     \* 0-based index of the line a corruption changed, or -1
    parse_dict,       \* Outcar.parse_dict: key -> parsed quantity
    outcome,          \* from_file: how the call ended (returned or raised)
    opened,           \* how often the log file was opened and read
    hdf,              \* the nodes of the store group "outcar": key -> value
    loaded,           \* parse_dict of the Outcar that from_hdf fills
    result,           \* outcome of the extractor call under study
    scan_jj,          \* get_stresses: the line index jj of the delimiter scan
    status,           \* SQSJob.status
    input,            \* SQSJob.input: key -> value
    structure,        \* SQSJob.structure: its number of atoms
    _lst_of_struct,   \* SQSJob._lst_of_struct
    project_hdf5,     \* the store of the job: path -> node or group
    job_outcome,      \* how the method of the job under study ended
    generated,        \* the structures the generator returned, in its order
    mole_fractions,   \* mole_fractions_to_composition: argument
    num_atoms,        \* mole_fractions_to_composition: argument
    composition       \* mole_fractions_to_composition: outcome

vars == <<pc, ind_ionic_lst, ind_elec_lst, ind_combo_lst, lines, trigger,
          trigger_indices, line, cleaned, si_unit, stress_result, written,
          damaged_line, parse_dict, outcome, opened, hdf, loaded, result,
          scan_jj, status, input, structure, _lst_of_struct, project_hdf5,
          job_outcome, generated, mole_fractions, num_atoms, composition>>

\* the variables of the SQS job and of its store
jobVars == <<status, input, structure, _lst_of_struct, project_hdf5,
             job_outcome, generated>>

\* the variables of mole_fractions_to_composition
compositionVars == <<mole_fractions, num_atoms, composition>>

sqsVars == <<jobVars, compositionVars>>

\* the variables of the log parser
parserVars == <<ind_ionic_lst, ind_elec_lst, ind_combo_lst, lines, trigger,
                trigger_indices, line, cleaned, si_unit, stress_result,
                written, damaged_line, parse_dict, outcome, opened, hdf,
                loaded, result, scan_jj>>

\* the variables of the stress extractor and of the log it reads
stressVars == <<si_unit, stress_result, written, damaged_line>>

\* the variables of the store and of the Outcar read back from it
hdfVars == <<hdf, loaded>>

\* the variables of Outcar.from_file, of the store and of the single
\* extractor calls
outcarVars == <<parse_dict, outcome, opened, hdfVars, result>>

(***************************************************************************)
(* Bounds of the model.                                                    *)
(***************************************************************************)
MaxIndex == 5        \* line indices handed to _split_indices are in 0..MaxIndex
MaxStrLen == 3       \* longest line of the trigger-scanner buffers
MaxTrigLen == 2      \* longest pattern handed to _get_trigger
MaxScanLines == 2    \* longest buffer handed to _get_trigger
MaxCleanLen == 5     \* longest line handed to _clean_line
MaxBlocks == 2       \* most stress blocks in a log
MaxContrib == 1      \* most contribution rows between the two delimiters
MaxSteps == 1        \* most ionic steps in an OUTCAR log
MaxCells == 2        \* most cell blocks in a log of cells
MaxIonic == 2        \* most ionic steps in a log of electronic steps
MaxElec == 2         \* most electronic steps of one ionic step
MaxBands == 2        \* most bands in a band table
MaxBandSteps == 2    \* most ionic steps in a log of band tables
MaxAtoms == 2        \* most ions in a log of force blocks
MaxForceSteps == 2   \* most ionic steps in a log of force blocks
MaxElastic == 2      \* most blocks of elastic moduli in a log
MaxMesh == 2         \* largest first dimension of a mixing mesh
MaxMeshLines == 4    \* longest buffer handed to get_broyden_mixing_mesh
MaxNumAtoms == 4     \* most atoms of the structure of an SQS job
FractionSteps == 12  \* mole fractions are multiples of 1 / FractionSteps
MaxStructures == 2   \* most structures an SQS job is asked for
MaxOpened == 2       \* an Outcar reads again while it has opened at most this often

(***************************************************************************)
(* Generic helpers.                                                        *)
(***************************************************************************)
Range(s) == {s[i] : i \in 1..Len(s)}

RECURSIVE SortedSeq(_)
SortedSeq(S) ==
    IF S = {} THEN <<>>
    ELSE LET m == CHOOSE x \in S : \A y \in S : x <= y
         IN <<m>> \o SortedSeq(S \ {m})

RECURSIVE Flatten(_)
Flatten(ss) == IF ss = <<>> THEN <<>> ELSE Head(ss) \o Flatten(Tail(ss))

RECURSIVE StrsUpTo(_, _)
StrsUpTo(chars, n) ==
    IF n = 0 THEN {""}
    ELSE LET shorter == StrsUpTo(chars, n - 1)
         IN shorter \cup {s \o c : s \in shorter, c \in chars}

RECURSIVE SeqsUpTo(_, _)
SeqsUpTo(S, n) ==
    IF n = 0 THEN {<<>>}
    ELSE LET shorter == SeqsUpTo(S, n - 1)
         IN shorter \cup {Append(s, x) : s \in shorter, x \in S}

(***************************************************************************)
(* Python str methods.                                                     *)
(***************************************************************************)
Whitespace == {" ", "\t", "\n"}

Char(s, i) == SubSeq(s, i, i)

\* `p in s`
Contains(s, p) ==
    \E k \in 1..(Len(s) - Len(p) + 1) : SubSeq(s, k, k + Len(p) - 1) = p

\* s.strip(): leading and trailing whitespace removed
RECURSIVE lstrip(_)
lstrip(s) == IF s # "" /\ Head(s) \in Whitespace THEN lstrip(Tail(s)) ELSE s

RECURSIVE rstrip(_)
rstrip(s) ==
    IF s # "" /\ Char(s, Len(s)) \in Whitespace
    THEN rstrip(SubSeq(s, 1, Len(s) - 1)) ELSE s

strip(s) == rstrip(lstrip(s))

\* s.split(): the maximal runs of non-whitespace characters
RECURSIVE split_from(_, _, _, _)
split_from(s, i, start, out) ==
    IF i > Len(s)
    THEN (IF start = 0 THEN out ELSE Append(out, SubSeq(s, start, Len(s))))
    ELSE IF Char(s, i) \in Whitespace
         THEN split_from(s, i + 1, 0,
                  IF start = 0 THEN out ELSE Append(out, SubSeq(s, start, i - 1)))
         ELSE split_from(s, i + 1, IF start = 0 THEN i ELSE start, out)

split(s) == split_from(s, 1, 0, <<>>)

\* seq[a:b]: a negative bound counts from the end, and a slice never
\* raises, it is cut to the list
SliceBound(n, len) ==
    IF n < 0 THEN (IF n + len < 0 THEN 0 ELSE n + len)
    ELSE (IF n > len THEN len ELSE n)

PySlice(seq, a, b) ==
    SubSeq(seq, SliceBound(a, Len(seq)) + 1, SliceBound(b, Len(seq)))

\* seq[i] raises IndexError unless -len <= i < len
InRange(seq, i) == 0 - Len(seq) <= i /\ i < Len(seq)

At(seq, i) == IF i >= 0 THEN seq[i + 1] ELSE seq[Len(seq) + i + 1]

\* s.split(sep)[-1]: the text after the last of the separators that
\* str.split finds scanning from the left; the whole of s when there is none
RECURSIVE LastPieceFrom(_, _, _)
LastPieceFrom(s, sep, from) ==
    LET hits == {k \in from..(Len(s) - Len(sep) + 1) :
                    SubSeq(s, k, k + Len(sep) - 1) = sep}
    IN IF hits = {} THEN SubSeq(s, from, Len(s))
       ELSE LastPieceFrom(s, sep, (CHOOSE k \in hits : \A h \in hits : k <= h)
                                     + Len(sep))

LastPiece(s, sep) == LastPieceFrom(s, sep, 1)

(***************************************************************************)
(* Python values.  A call either returns a value or raises an exception:   *)
(* its outcome is a record [exc, val] with exc = "" on a normal return.    *)
(* A float is a record [nan, v]: the logs of the model write every number  *)
(* as an optionally signed string of decimal digits, so v is an integer;   *)
(* any token with another character is one float() rejects (ValueError).   *)
(***************************************************************************)
Return(v) == [exc |-> "", val |-> v]
Raise(e) == [exc |-> e, val |-> <<>>]
NotCalled == [exc |-> "not called", val |-> <<>>]

\* no SQS job is there
NoSqsJob ==
    /\ status = "initialized"
    /\ input = <<>>
    /\ structure = 0
    /\ _lst_of_struct = <<>>
    /\ project_hdf5 = <<>>
    /\ job_outcome = NotCalled
    /\ generated = <<>>

\* mole_fractions_to_composition is not called
NoComposition ==
    /\ mole_fractions = <<>>
    /\ num_atoms = 1
    /\ composition = NotCalled

NoJob == NoSqsJob /\ NoComposition

\* None, or a value that is not None
None == [none |-> TRUE, v |-> <<>>]
Some(x) == [none |-> FALSE, v |-> x]

Float(n) == [nan |-> FALSE, v |-> n]
NaN == [nan |-> TRUE, v |-> 0]

Least(S) == CHOOSE x \in S : \A y \in S : x <= y

\* a loop that runs its body on the elements of a list in order and collects
\* the values: given the outcome of the body on each element, the loop
\* raises the first exception, or returns the list of the values
Collect(outcomes) ==
    LET done == outcomes \o <<>>
        failed == {k \in 1..Len(done) : done[k].exc # ""}
    IN IF failed = {} THEN Return([k \in 1..Len(done) |-> done[k].val] \o <<>>)
       ELSE done[Least(failed)]

Digits == "0123456789"

DigitValue(c) == CHOOSE d \in 0..9 : Char(Digits, d + 1) = c

IsDigits(s) ==
    /\ Len(s) >= 1
    /\ \A i \in 1..Len(s) : \E d \in 1..10 : Char(s, i) = Char(Digits, d)

RECURSIVE DigitsValue(_)
DigitsValue(s) ==
    IF s = "" THEN 0
    ELSE 10 * DigitsValue(SubSeq(s, 1, Len(s) - 1)) + DigitValue(Char(s, Len(s)))

Unsigned(tok) == IF Head(tok) \in {"-", "+"} THEN Tail(tok) ELSE tok

\* does float(tok) / int(tok) accept the text (surrounding whitespace is
\* ignored by both)
IsNumber(text) == LET tok == strip(text) IN tok # "" /\ IsDigits(Unsigned(tok))

NumberValue(text) ==
    LET tok == strip(text)
    IN IF Head(tok) = "-" THEN 0 - DigitsValue(Tail(tok))
       ELSE DigitsValue(Unsigned(tok))

RECURSIVE NatStr(_)
NatStr(n) ==
    IF n < 10 THEN Char(Digits, n + 1)
    ELSE NatStr(n \div 10) \o Char(Digits, (n % 10) + 1)

\* the text the simulation writes for the integer n
NumStr(n) == IF n < 0 THEN "-" \o NatStr(0 - n) ELSE NatStr(n)

(***************************************************************************)
(* _clean_line(line): line.replace("-", " -")                              *)
(***************************************************************************)
RECURSIVE clean_line_keep_spaced(_, _)
clean_line_keep_spaced(s, prev) ==
    IF s = "" THEN ""
    ELSE LET c == Head(s)
         IN (IF c = "-" /\ prev \notin Whitespace THEN " -" ELSE c)
                \o clean_line_keep_spaced(Tail(s), c)

\* mutant: no space is inserted before a '-' that already follows whitespace
clean_line_skip_after_space(s) == clean_line_keep_spaced(s, "")

RECURSIVE _clean_line(_)
_clean_line(s) ==
    IF s = "" THEN ""
    ELSE (IF Head(s) = "-" THEN " -" ELSE Head(s)) \o _clean_line(Tail(s))

(***************************************************************************)
(* _get_trigger(trigger, lines): the 0-based indices of the lines whose    *)
(* stripped text contains the trigger, and the buffer itself.              *)
(***************************************************************************)
\* the list comprehension over the lines at the 0-based indices lo..hi-1,
\* built as its first half followed by its second half
RECURSIVE scan_from(_, _, _, _)
scan_from(ls, trig, lo, hi) ==
    IF lo >= hi THEN <<>>
    ELSE IF hi = lo + 1
    THEN (IF Contains(strip(ls[lo + 1]), trig) THEN <<lo>> ELSE <<>>)
    ELSE scan_from(ls, trig, lo, (lo + hi) \div 2)
             \o scan_from(ls, trig, (lo + hi) \div 2, hi)

\* mutant: the line is matched without being stripped
RECURSIVE scan_from_unstripped(_, _, _, _)
scan_from_unstripped(ls, trig, lo, hi) ==
    IF lo >= hi THEN <<>>
    ELSE IF hi = lo + 1
    THEN (IF Contains(ls[lo + 1], trig) THEN <<lo>> ELSE <<>>)
    ELSE scan_from_unstripped(ls, trig, lo, (lo + hi) \div 2)
             \o scan_from_unstripped(ls, trig, (lo + hi) \div 2, hi)

get_trigger_unstripped(trig, ls) == scan_from_unstripped(ls, trig, 0, Len(ls))

_get_trigger(trig, ls) == scan_from(ls, trig, 0, Len(ls))

(***************************************************************************)
(* _split_indices(ind_ionic_lst, ind_elec_lst)                             *)
(***************************************************************************)
\* np.roll(a, 1)
roll(a) == IF a = <<>> THEN <<>> ELSE <<a[Len(a)]>> \o SubSeq(a, 1, Len(a) - 1)

\* mutant: the upper bound of every bucket is inclusive
split_indices_inclusive(ionic, elec) ==
    LET rolled == roll(ionic)
    IN [k \in 1..Len(ionic) |->
          LET j1 == rolled[k]
              j2 == ionic[k]
              both(e) == e <= j2 /\ j1 < e
              upper(e) == e <= j2
          IN IF j1 < j2 THEN SelectSeq(elec, both) ELSE SelectSeq(elec, upper)]

\* mutant: the wrap-around pair (last ionic index, first ionic index) is
\* filtered like every other pair
split_indices_no_wrap(ionic, elec) ==
    LET rolled == roll(ionic)
    IN [k \in 1..Len(ionic) |->
          LET j1 == rolled[k]
              j2 == ionic[k]
              both(e) == e < j2 /\ j1 < e
          IN SelectSeq(elec, both)]

_split_indices(ionic, elec) ==
    LET rolled == roll(ionic)
    IN [k \in 1..Len(ionic) |->
          LET j1 == rolled[k]
              j2 == ionic[k]
              both(e) == e < j2 /\ j1 < e
              upper(e) == e < j2
          IN IF j1 < j2 THEN SelectSeq(elec, both) ELSE SelectSeq(elec, upper)]

(***************************************************************************)
(* Outcar.get_stresses(lines, si_unit)                                     *)
(***************************************************************************)
StressTrigger == "FORCE on cell =-STRESS in cart. coord.  units (eV):"

\* set(line.strip()) == {"-"}
IsDashOnly(l) ==
    LET t == strip(l)
    IN t # "" /\ \A i \in 1..Len(t) : Char(t, i) = "-"

\* while set(lines[jj].strip()) != {"-"}: jj += 1
\* the index of the first dash-only line at or after jj; Len(ls) when the
\* scan runs off the end of the buffer (lines[jj] raises IndexError there)
RECURSIVE scan_to_delimiter(_, _)
scan_to_delimiter(ls, jj) ==
    IF jj >= Len(ls) THEN Len(ls)
    ELSE IF IsDashOnly(ls[jj + 1]) THEN jj
    ELSE scan_to_delimiter(ls, jj + 1)

NaNRow == [i \in 1..6 |-> NaN]

\* mutant: a row that does not parse is replaced by zeros
stress_values_zero_on_error(ls, jj, si) ==
    LET row == IF si THEN jj + 1 ELSE jj + 2
    IN IF row >= Len(ls) THEN Raise("IndexError")
       ELSE LET tokens == split(ls[row + 1])
                fields == IF si THEN PySlice(tokens, 1, 7)
                          ELSE PySlice(tokens, 2, 8)
            IN IF \E i \in 1..Len(fields) : ~IsNumber(fields[i])
               THEN Return([i \in 1..6 |-> Float(0)])
               ELSE Return([i \in 1..Len(fields) |->
                               Float(NumberValue(fields[i]))])

\* the try block: the six fields of the row after the second delimiter,
\* or six NaN when float() raises ValueError on one of them
stress_values(ls, jj, si) ==
    LET row == IF si THEN jj + 1 ELSE jj + 2
    IN IF row >= Len(ls) THEN Raise("IndexError")
       ELSE LET tokens == split(ls[row + 1])
                fields == IF si THEN PySlice(tokens, 1, 7)
                          ELSE PySlice(tokens, 2, 8)
            IN IF \E i \in 1..Len(fields) : ~IsNumber(fields[i])
               THEN Return(NaNRow)
               ELSE Return([i \in 1..Len(fields) |->
                               Float(NumberValue(fields[i]))])

\* mutant: the YZ and ZX components change places
stress_tensor_yz_zx_swapped(stress) ==
    IF Len(stress) < 6 THEN Raise("IndexError")
    ELSE Return(<< <<stress[1], stress[4], stress[5]>>,
                   <<stress[4], stress[2], stress[6]>>,
                   <<stress[5], stress[6], stress[3]>> >>)

\* stressm = np.diag(stress[:3]); stressm[0, 1] = stressm[1, 0] = stress[3];
\* stressm[1, 2] = stressm[2, 1] = stress[4]; stressm[0, 2] = stressm[2, 0] =
\* stress[5]: stress[3] raises IndexError on a row of fewer than six fields
stress_tensor(stress) ==
    IF Len(stress) < 6 THEN Raise("IndexError")
    ELSE Return(<< <<stress[1], stress[4], stress[6]>>,
                   <<stress[4], stress[2], stress[5]>>,
                   <<stress[6], stress[5], stress[3]>> >>)

\* the body of the loop over the trigger indices, for the trigger at j
stress_at(ls, j, si) ==
    LET d1 == scan_to_delimiter(ls, j)
        d2 == scan_to_delimiter(ls, d1 + 1)
    IN IF d1 >= Len(ls) \/ d2 >= Len(ls) THEN Raise("IndexError")
       ELSE LET stress == stress_values(ls, d2, si)
            IN IF stress.exc # "" THEN stress ELSE stress_tensor(stress.val)

get_stresses(ls, si) ==
    LET trigs == _get_trigger(StressTrigger, ls)
    IN Collect([k \in 1..Len(trigs) |-> stress_at(ls, trigs[k], si)])

(***************************************************************************)
(* The extractors of Outcar that read one number per trigger line.         *)
(***************************************************************************)
IonicTrigger == "FREE ENERGIE OF THE ION-ELECTRON SYSTEM (eV)"

\* float(text): ValueError unless the text is a number
to_float(text) ==
    IF IsNumber(text) THEN Return(Float(NumberValue(text))) ELSE Raise("ValueError")

\* float(tokens[pos])
token_float(tokens, pos) ==
    IF ~InRange(tokens, pos) THEN Raise("IndexError")
    ELSE to_float(At(tokens, pos))

\* [float(l) for l in tokens]
floats(tokens) == Collect([i \in 1..Len(tokens) |-> to_float(tokens[i])])

\* mutant: the line is split as it is, without the repair of abutting
\* negative numbers
line_token_float_unrepaired(ls, idx, pos) ==
    IF idx >= Len(ls) THEN Raise("IndexError")
    ELSE token_float(split(strip(ls[idx + 1])), pos)

\* float(_clean_line(lines[idx].strip()).split()[pos]), for idx >= 0
line_token_float(ls, idx, pos) ==
    IF idx >= Len(ls) THEN Raise("IndexError")
    ELSE token_float(split(_clean_line(strip(ls[idx + 1]))), pos)

get_total_energies(ls) ==
    LET trigs == _get_trigger(IonicTrigger, ls)
    IN Collect([k \in 1..Len(trigs) |-> line_token_float(ls, trigs[k] + 2, -2)])

get_energy_without_entropy(ls) ==
    LET trigs == _get_trigger(IonicTrigger, ls)
    IN Collect([k \in 1..Len(trigs) |-> line_token_float(ls, trigs[k] + 4, 3)])

get_energy_sigma_0(ls) ==
    LET trigs == _get_trigger(IonicTrigger, ls)
    IN Collect([k \in 1..Len(trigs) |-> line_token_float(ls, trigs[k] + 4, -1)])

get_all_total_energies(ls) ==
    LET ind_combo == _split_indices(_get_trigger(IonicTrigger, ls),
                                    _get_trigger("free energy    TOTEN  =", ls))
    IN Collect([k \in 1..Len(ind_combo) |->
           Collect([i \in 1..Len(ind_combo[k]) |->
               line_token_float(ls, ind_combo[k][i], -2)])])

\* mutant: one ion is assumed when the log has no ion count
get_number_of_atoms_default_one(ls) ==
    LET trigs == _get_trigger("NIONS =", ls)
    IN IF trigs = <<>> THEN Return(Float(1))
       ELSE to_float(LastPiece(ls[trigs[1] + 1], "NIONS ="))

get_number_of_atoms(ls) ==
    LET trigs == _get_trigger("NIONS =", ls)
    IN IF trigs = <<>> THEN Raise("ValueError")
       ELSE to_float(LastPiece(ls[trigs[1] + 1], "NIONS ="))

\* the loop body of _get_positions_and_forces_parser for one line: the
\* outcome is the pair <<position row, force row>> (a row that is not
\* requested stays empty)
position_force_row(l, pos_flag, force_flag) ==
    LET tokens == split(_clean_line(strip(l)))
    IN Collect(<<IF pos_flag THEN floats(PySlice(tokens, 0, 3)) ELSE Return(<<>>),
                 IF force_flag THEN floats(PySlice(tokens, 3, Len(tokens)))
                 ELSE Return(<<>>)>>)

\* the outcome holds, per trigger, the list of the <<position, force>> rows
positions_and_forces_rows(ls, trigs, n_atoms, pos_flag, force_flag) ==
    Collect([k \in 1..Len(trigs) |->
        LET block == PySlice(ls, trigs[k] + 2, trigs[k] + n_atoms + 2)
        IN Collect([a \in 1..Len(block) |->
               position_force_row(block[a], pos_flag, force_flag)])])

Column(rows, c) == [k \in 1..Len(rows) |-> [a \in 1..Len(rows[k]) |-> rows[k][a][c]]]

\* the array of the positions (c = 1) or of the forces (c = 2)
column_of(r, c) == IF r.exc # "" THEN r ELSE Return(Column(r.val, c))

get_forces(ls, n_atoms) ==
    column_of(positions_and_forces_rows(
                  ls, _get_trigger("TOTAL-FORCE (eV/Angst)", ls), n_atoms,
                  FALSE, TRUE), 2)

get_positions(ls, n_atoms) ==
    column_of(positions_and_forces_rows(
                  ls, _get_trigger("TOTAL-FORCE (eV/Angst)", ls), n_atoms,
                  TRUE, FALSE), 1)

\* the pair <<positions, forces>>
both_columns(r) ==
    IF r.exc # "" THEN r ELSE Return(<<Column(r.val, 1), Column(r.val, 2)>>)

get_positions_and_forces(ls, n_atoms) ==
    both_columns(positions_and_forces_rows(
                     ls, _get_trigger("TOTAL-FORCE (eV/Angst)", ls), n_atoms,
                     TRUE, TRUE))

\* an entry point called without n_atoms resolves the ion count first
with_number_of_atoms(ls, n_atoms, mode) ==
    IF n_atoms.exc # "" THEN n_atoms
    ELSE IF mode = "positions" THEN get_positions(ls, n_atoms.val.v)
    ELSE IF mode = "forces" THEN get_forces(ls, n_atoms.val.v)
    ELSE get_positions_and_forces(ls, n_atoms.val.v)

\* _get_cells_praser: a ValueError anywhere gives None for the whole list
get_cells(ls) ==
    LET trigs == _get_trigger("VOLUME and BASIS-vectors are now :", ls)
        r == Collect([k \in 1..Len(trigs) |->
                 LET block == PySlice(ls, trigs[k] + 5, trigs[k] + 8)
                 IN Collect([a \in 1..Len(block) |->
                        floats(PySlice(split(_clean_line(strip(block[a]))), 0, 3))])])
    IN IF r.exc = "ValueError" THEN Return(None) ELSE Return(Some(r.val))

\* np.linspace(0, stop): LinspaceNum evenly spaced values from 0 to stop,
\* kept here as the numerators of the fractions k * stop / (LinspaceNum - 1)
LinspaceNum == 50

linspace(stop) == [k \in 1..LinspaceNum |-> Float((k - 1) * stop)]

\* n_block is 1: the branch that reads NBLOCK is never taken
get_steps(ls) == Return(linspace(Len(_get_trigger(IonicTrigger, ls))))

\* potim is 1.0 (the branch that reads POTIM is never taken), and the steps
\* are read from the file again
get_time(file) == get_steps(file)

get_temperatures(ls) ==
    LET trigs == _get_trigger("kin. lattice  EKIN_LAT= ", ls)
    IN IF trigs # <<>>
       THEN Collect([k \in 1..Len(trigs) |-> line_token_float(ls, trigs[k], -2)])
       ELSE Return([k \in 1..Len(_get_trigger(IonicTrigger, ls)) |-> Float(0)])

get_fermi_level(ls) ==
    LET trigs == _get_trigger("E-fermi :", ls)
    IN IF trigs = <<>> THEN Return(None)
       ELSE LET r == token_float(split(LastPiece(ls[trigs[Len(trigs)] + 1], "E-fermi :")), 0)
            IN IF r.exc = "ValueError" THEN Return(None)
               ELSE IF r.exc # "" THEN r
               ELSE Return(Some(r.val))

\* the first line whose stripped text contains the trigger; 0 when none does
FirstLineWith(ls, trig) ==
    LET trigs == _get_trigger(trig, ls)
    IN IF trigs = <<>> THEN 0 ELSE trigs[1] + 1

\* for i, line in enumerate(lines): if trigger in line.strip(): return
\* float(line.strip().split()[pos]); None when no line has the trigger
first_line_float(ls, trig, pos) ==
    LET n == FirstLineWith(ls, trig)
    IN IF n = 0 THEN Return(None)
       ELSE LET r == token_float(split(strip(ls[n])), pos)
            IN IF r.exc # "" THEN r ELSE Return(Some(r.val))

get_nelect(ls) == first_line_float(ls, "NELECT", 2)
get_cpu_time(ls) == first_line_float(ls, "Total CPU time used (sec):", -1)
get_user_time(ls) == first_line_float(ls, "User time (sec):", -1)
get_system_time(ls) == first_line_float(ls, "System time (sec):", -1)
get_elapsed_time(ls) == first_line_float(ls, "Elapsed time (sec):", -1)
get_memory_used(ls) == first_line_float(ls, "Maximum memory used (kb):", -1)

(***************************************************************************)
(* Outcar.get_dipole_moments and Outcar.get_kinetic_energy_error           *)
(***************************************************************************)
\* the test for the ionic trigger at the top of the loop body; the locals
\* are dip_moms (finished ionic steps) and istep_mom (current step)
dipole_ionic(st, l) ==
    IF Contains(l, IonicTrigger)
    THEN [dip_moms |-> Append(st.dip_moms, st.istep_mom), istep_mom |-> <<>>]
    ELSE st

\* istep_mom.append(mom), given the outcome r of the three conversions
dipole_moment(st, r) ==
    IF r.exc # "" THEN [stop |-> TRUE, out |-> r, st |-> st]
    ELSE [stop |-> FALSE, out |-> r,
          st |-> [st EXCEPT !.istep_mom = Append(@, r.val)]]

\* the loop body for the stripped line l, after the test for the ionic
\* trigger
dipole_line(l, st) ==
    IF Contains(l, "dipolmoment")
    THEN dipole_moment(st, floats(PySlice(split(_clean_line(l)), 1, 4)))
    ELSE [stop |-> FALSE, out |-> Return(<<>>), st |-> st]

\* the loop body for the line at i (1-based), unless an earlier line raised
dipole_step(ls, i, body) ==
    IF body.stop THEN body
    ELSE dipole_line(strip(ls[i]), dipole_ionic(body.st, strip(ls[i])))

\* the loop over the lines lo..hi (1-based), run as its first half followed
\* by its second half
RECURSIVE dipole_scan(_, _, _, _)
\* the lines lo..hi, unless the loop was left before them
dipole_rest(ls, lo, hi, body) ==
    IF body.stop THEN body ELSE dipole_scan(ls, lo, hi, body)

dipole_scan(ls, lo, hi, body) ==
    IF lo > hi THEN body
    ELSE IF lo = hi THEN dipole_step(ls, lo, body)
    ELSE dipole_rest(ls, ((lo + hi) \div 2) + 1, hi,
                     dipole_scan(ls, lo, (lo + hi) \div 2, body))

\* the return after the loop, or the exception that left the loop
dipole_result(body) == IF body.stop THEN body.out ELSE Return(body.st.dip_moms)

get_dipole_moments(ls) ==
    dipole_result(dipole_scan(ls, 1, Len(ls),
        [stop |-> FALSE, out |-> Return(<<>>),
         st |-> [dip_moms |-> <<>>, istep_mom |-> <<>>]]))

RECURSIVE DotProduct(_, _)
DotProduct(a, b) ==
    IF a = <<>> THEN 0 ELSE a[1].v * b[1].v + DotProduct(Tail(a), Tail(b))

\* what one line contributes, given the outcome r of its two conversions
kinetic_contribution(has_err, has_species, r) ==
    IF r.exc # "" THEN r
    ELSE Return([has_err |-> has_err, err |-> r.val[1],
                 has_species |-> has_species, species |-> r.val[2]])

\* the loop body for the stripped line l
kinetic_error_line(l) ==
    kinetic_contribution(
        Contains(l, "kinetic energy error for atom="),
        Contains(l, "ions per type ="),
        Collect(<<IF Contains(l, "kinetic energy error for atom=")
                  THEN token_float(split(l), 5) ELSE Return(NaN),
                  IF Contains(l, "ions per type =")
                  THEN floats(split(strip(LastPiece(l, "ions per type ="))))
                  ELSE Return(<<>>)>>))

\* the code after the loop, given the outcome of the loop
kinetic_energy_error(r) ==
    IF r.exc # "" THEN r
    ELSE LET with_err == SelectSeq(r.val, LAMBDA x : x.has_err)
             with_species == SelectSeq(r.val, LAMBDA x : x.has_species)
             e_kin_err == [k \in 1..Len(with_err) |-> with_err[k].err]
             n_species_list == IF with_species = <<>> THEN <<>>
                               ELSE with_species[Len(with_species)].species
         IN IF Len(n_species_list) > 0 /\ Len(n_species_list) = Len(e_kin_err)
            THEN Return(Float(DotProduct(n_species_list, e_kin_err)))
            ELSE Return(Float(0))

get_kinetic_energy_error(ls) ==
    kinetic_energy_error(
        Collect([i \in 1..Len(ls) |-> kinetic_error_line(strip(ls[i]))]))

(***************************************************************************)
(* Outcar.get_band_properties                                              *)
(***************************************************************************)
BandTrigger == "band No.  band energies     occupation"

\* for line in lines_new[ind + 1:]: rows of three tokens, up to the first
\* line that has another number of tokens; sub is lines_new, i is 1-based
RECURSIVE band_rows(_, _, _)
\* the end of the loop body for line i, given the outcome of its row
band_row_read(sub, i, acc, r) ==
    IF r.exc # "" THEN r ELSE band_rows(sub, i + 1, Append(acc, r.val))

band_rows(sub, i, acc) ==
    IF i > Len(sub) THEN Return(acc)
    ELSE LET data == split(strip(sub[i]))
         IN IF Len(data) # 3 THEN Return(acc)
            ELSE band_row_read(sub, i, acc, floats(PySlice(data, 1, 3)))

\* the loop over the band tables of one ionic step, from table k on; the
\* outcome is [spin |-> is_spin_polarized, data |-> band_data]
RECURSIVE band_tables(_, _, _, _, _)
\* the end of the loop body for table k, given the outcome of its rows
band_table_read(sub, trigs, k, spin, rows) ==
    IF rows.exc # "" THEN rows
    ELSE band_tables(sub, trigs, k + 1,
             spin \/ Contains(At(sub, trigs[k] - 3), "spin component"),
             rows.val)

band_tables(sub, trigs, k, spin, data) ==
    IF k > Len(trigs) THEN Return([spin |-> spin, data |-> data])
    ELSE IF ~InRange(sub, trigs[k] - 3) THEN Raise("IndexError")
    ELSE band_table_read(sub, trigs, k, spin, band_rows(sub, trigs[k] + 2, data))

\* the bands (rows <<energy, occupation>>) in the order of np.argsort of
\* the energies
RECURSIVE SortByEnergy(_)
SortByEnergy(bands) ==
    IF bands = <<>> THEN <<>>
    ELSE LET k == CHOOSE i \in 1..Len(bands) :
                     /\ \A j \in 1..Len(bands) : bands[i][1].v <= bands[j][1].v
                     /\ \A j \in 1..(i - 1) : bands[j][1].v # bands[i][1].v
         IN <<bands[k]>> \o SortByEnergy(SubSeq(bands, 1, k - 1)
                                             \o SubSeq(bands, k + 1, Len(bands)))

\* np.abs(band_occ) < 1e-6, the occupations of the model being integers
IsConduction(band) == band[2].v = 0

band_cbm(bands) ==
    LET sorted == SortByEnergy(bands)
        conduction == SelectSeq(sorted, IsConduction)
    IN IF conduction # <<>> THEN conduction[1][1] ELSE sorted[Len(sorted)][1]

\* mutant: the lowest band that is not a conduction band
band_vbm_lowest_valence(bands) ==
    LET sorted == SortByEnergy(bands)
        valence == SelectSeq(sorted, LAMBDA b : ~IsConduction(b))
    IN IF valence = <<>> THEN band_cbm(bands) ELSE valence[1][1]

\* mutant: the highest band of a channel without occupied bands
band_vbm_top_when_empty(bands) ==
    LET sorted == SortByEnergy(bands)
        valence == SelectSeq(sorted, LAMBDA b : ~IsConduction(b))
    IN IF valence = <<>> THEN sorted[Len(sorted)][1] ELSE valence[Len(valence)][1]

band_vbm(bands) ==
    LET sorted == SortByEnergy(bands)
        valence == SelectSeq(sorted, LAMBDA b : ~IsConduction(b))
    IN IF valence = <<>> THEN band_cbm(bands) ELSE valence[Len(valence)][1]

\* the per-spin lists of levels after one more ionic step: a spin channel
\* with no band in this step gets its (empty) list but no level
AppendLevels(levels, added) ==
    LET n == IF Len(added) > Len(levels) THEN Len(added) ELSE Len(levels)
    IN [c \in 1..n |->
          (IF c <= Len(levels) THEN levels[c] ELSE <<>>)
              \o (IF c <= Len(added) THEN added[c] ELSE <<>>)]

\* the band data of one ionic step, one list per spin channel
per_spin_data(table) ==
    LET half == Len(table.data) \div 2
    IN IF table.spin
       THEN <<PySlice(table.data, 0, half),
              PySlice(table.data, half, Len(table.data))>>
       ELSE <<table.data>>

\* the loop over the ionic steps (the E-fermi lines), from step n on
RECURSIVE band_steps(_, _, _, _, _, _)
\* the end of the loop body for step n, given its band data per spin
band_levels(ls, fermi, n, spin, vbm, cbm, per_spin) ==
    band_steps(ls, fermi, n + 1, spin,
               AppendLevels(vbm, [c \in 1..Len(per_spin) |->
                   IF per_spin[c] = <<>> THEN <<>>
                   ELSE <<band_vbm(per_spin[c])>>]),
               AppendLevels(cbm, [c \in 1..Len(per_spin) |->
                   IF per_spin[c] = <<>> THEN <<>>
                   ELSE <<band_cbm(per_spin[c])>>]))

\* the loop body for step n, given the outcome t of reading its tables
band_step(ls, fermi, n, vbm, cbm, t) ==
    IF t.exc # "" THEN t
    ELSE band_levels(ls, fermi, n, t.val.spin, vbm, cbm, per_spin_data(t.val))

\* the tables of the lines `sub` of one ionic step
band_tables_of(sub, spin) ==
    band_tables(sub, _get_trigger(BandTrigger, sub), 1, spin, <<>>)

band_steps(ls, fermi, n, spin, vbm, cbm) ==
    IF n > Len(fermi) THEN Return(<<vbm, cbm>>)
    ELSE band_step(ls, fermi, n, vbm, cbm,
             band_tables_of(IF n = Len(fermi) THEN PySlice(ls, fermi[n], -1)
                            ELSE PySlice(ls, fermi[n], fermi[n + 1]), spin))

\* the outcome is <<fermi_level_list, vbm per spin, cbm per spin>>, given
\* the outcome r of <<the Fermi levels, the loop over the steps>>
band_result(r) ==
    IF r.exc # "" THEN r
    ELSE Return(<<r.val[1], r.val[2][1], r.val[2][2]>>)

band_properties(ls, fermi) ==
    band_result(Collect(<<
        Collect([k \in 1..Len(fermi) |->
            token_float(split(strip(ls[fermi[k] + 1])), 2)]),
        band_steps(ls, fermi, 1, FALSE, <<>>, <<>>)>>))

get_band_properties(ls) == band_properties(ls, _get_trigger("E-fermi", ls))

(***************************************************************************)
(* Outcar.get_elastic_constants and Outcar.get_energy_components           *)
(***************************************************************************)
\* x / d for a float x: the quotient is kept as the pair of x and d
divided(x, d) == [nan |-> x.nan, v |-> x.v, den |-> d]

\* np.array(rows, dtype=float) / 10: ValueError when a token is not a
\* number or the rows differ in length
elastic_GPa(rows, r) ==
    IF r.exc # "" THEN r
    ELSE IF \E a \in 1..Len(rows) : Len(rows[a]) # Len(rows[1])
         THEN Raise("ValueError")
    ELSE Return(Some([a \in 1..Len(rows) |->
                         [b \in 1..Len(rows[a]) |-> divided(r.val[a][b], 10)]]))

get_elastic_constants(ls) ==
    LET trigs == _get_trigger("TOTAL ELASTIC MODULI (kBar)", ls)
    IN IF Len(trigs) # 1 THEN Return(None)
       ELSE LET block == PySlice(ls, trigs[1] + 3, trigs[1] + 9)
                rows == [a \in 1..Len(block) |->
                            PySlice(split(block[a]), 1, Len(split(block[a])))]
            IN elastic_GPa(rows, Collect([a \in 1..Len(rows) |-> floats(rows[a])]))

\* float(lines[idx].split()[pos]), for idx >= 0
raw_token_float(ls, idx, pos) ==
    IF idx >= Len(ls) THEN Raise("IndexError")
    ELSE token_float(split(ls[idx + 1]), pos)

\* the entry i (2..11) of the electronic step at ind: one value, or the two
\* values of the line 7 below the last electronic step of the bucket
energy_component(ls, ind, last, i) ==
    IF i # 7
    THEN LET r == raw_token_float(ls, ind + i, -1)
         IN IF r.exc # "" THEN r ELSE Return(<<r.val>>)
    ELSE Collect(<<raw_token_float(ls, last + 7, -2),
                   raw_token_float(ls, last + 7, -1)>>)

Transpose(rows) ==
    IF rows = <<>> THEN <<>>
    ELSE [c \in 1..Len(rows[1]) |-> [r \in 1..Len(rows) |-> rows[r][c]]]

\* a ValueError anywhere gives the empty list; an IndexError is not caught
get_energy_components(ls) ==
    LET ind_combo == _split_indices(
                         _get_trigger(IonicTrigger, ls),
                         _get_trigger("Free energy of the ion-electron system (eV)", ls))
        r == Collect([k \in 1..Len(ind_combo) |->
                 LET ind_lst == ind_combo[k]
                 IN Collect([e \in 1..Len(ind_lst) |->
                        LET parts == Collect([n \in 1..10 |->
                                         energy_component(ls, ind_lst[e],
                                             ind_lst[Len(ind_lst)], n + 1)])
                        IN IF parts.exc # "" THEN parts
                           ELSE Return(Flatten(parts.val))])])
    IN IF r.exc = "ValueError" THEN Return(<<>>)
       ELSE IF r.exc # "" THEN r
       ELSE Return([k \in 1..Len(r.val) |-> Transpose(r.val[k])])

(***************************************************************************)
(* Outcar.get_irreducible_kpoints (reciprocal, weight, planewaves = True)  *)
(***************************************************************************)
KpointsTrigger == "Subroutine IBZKPT returns following result:"
PlaneWavesTrigger == "k-point  1 :"

\* the last line that satisfies the branch of the loop; 0 when none does
LastOr0(indices) == IF indices = <<>> THEN 0 ELSE indices[Len(indices)]

\* one line of the k-point list: <<three coordinates, weight>>
kpoint_row(l) ==
    LET tokens == split(_clean_line(strip(l)))
    IN Collect(<<floats(PySlice(tokens, 0, 3)), token_float(tokens, 3)>>)

\* the arrays the function returns, given the outcome of its two loops:
\* <<kpoint_lst, weight_lst, planewaves_lst>>
kpoint_arrays(r) ==
    IF r.exc # "" THEN r
    ELSE Return(<<[a \in 1..Len(r.val[1]) |-> r.val[1][a][1]],
                  [a \in 1..Len(r.val[1]) |-> r.val[1][a][2]],
                  r.val[2]>>)

\* the two loops, given the lines of the two triggers and the outcome of
\* int(lines[trigger_number + 3].split()[1])
kpoint_loops(ls, trigger_number, trigger_plane_waves, number) ==
    IF number.exc # "" THEN number
    ELSE LET number_irr_kpoints == number.val.v
             trigger_start == trigger_number + 7
             block == PySlice(ls, trigger_start, trigger_start + number_irr_kpoints)
             pw_block == IF trigger_plane_waves # 0
                         THEN PySlice(ls, trigger_plane_waves,
                                      trigger_plane_waves + number_irr_kpoints)
                         ELSE <<>>
         IN kpoint_arrays(Collect(<<
                Collect([a \in 1..Len(block) |-> kpoint_row(block[a])]),
                Collect([a \in 1..Len(pw_block) |->
                    token_float(split(_clean_line(strip(pw_block[a]))), -1)])>>))

kpoints_at(ls, trigger_number, trigger_plane_waves) ==
    kpoint_loops(ls, trigger_number, trigger_plane_waves,
                 raw_token_float(ls, trigger_number + 3, 1))

get_irreducible_kpoints(ls) ==
    kpoints_at(ls, LastOr0(_get_trigger(KpointsTrigger, ls)),
               LastOr0(SelectSeq(_get_trigger(PlaneWavesTrigger, ls),
                           LAMBDA i : ~Contains(strip(ls[i + 1]), KpointsTrigger))))

(***************************************************************************)
(* Outcar.get_broyden_mixing_mesh                                          *)
(***************************************************************************)
Letters == "abcdefghijklmnopqrstuvwxyzABCDEFGHIJKLMNOPQRSTUVWXYZ"

\* re.sub(r"[a-zA-Z]", r"", line.replace(" ", "").replace("\n", ""))
RECURSIVE StripLettersAndBlanks(_)
StripLettersAndBlanks(s) ==
    IF s = "" THEN ""
    ELSE (IF Head(s) \in {" ", "\n"} \/ Contains(Letters, Head(s)) THEN ""
          ELSE Head(s)) \o StripLettersAndBlanks(Tail(s))

\* s.split("="): every piece, the empty ones too
RECURSIVE SplitOnEquals(_, _)
SplitOnEquals(s, cur) ==
    IF s = "" THEN <<cur>>
    ELSE IF Head(s) = "=" THEN <<cur>> \o SplitOnEquals(Tail(s), "")
    ELSE SplitOnEquals(Tail(s), cur \o Head(s))

RECURSIVE Product(_)
Product(values) ==
    IF values = <<>> THEN 1 ELSE values[1].v * Product(Tail(values))

\* the index of the line the mesh is read from, for the first trigger at t
broyden_line(t) == t - 2

get_broyden_mixing_mesh(ls) ==
    LET trigs == _get_trigger("gives a total of ", ls)
    IN IF trigs = <<>> THEN Return(0)
       ELSE IF ~InRange(ls, broyden_line(trigs[1])) THEN Raise("IndexError")
       ELSE LET str_list == SplitOnEquals(
                                StripLettersAndBlanks(At(ls, broyden_line(trigs[1]))), "")
                r == floats(PySlice(str_list, 1, Len(str_list)))
            IN IF r.exc # "" THEN r ELSE Return(Product(r.val))

(***************************************************************************)
(* Outcar.get_magnetization                                                *)
(***************************************************************************)
\* the locals of the loop over the lines
MagnetizationStart ==
    [mag_lst |-> <<>>, istep_energies |-> <<>>, local_spin_trigger |-> FALSE,
     n_atoms |-> None, x |-> <<>>, y |-> <<>>, z |-> <<>>]

\* istep_energies.append(ene), unless the conversion raised ValueError (the
\* exception is caught and the record is skipped)
appended(istep_energies, r) ==
    IF r.exc = "" THEN Append(istep_energies, r.val) ELSE istep_energies

\* the try block entered at an electronic trigger, for the text that
\* follows "magnetization" on the line two below: what it does to the
\* series of the current ionic step, and the text `line` is bound to
\* afterwards.  "return" is the early return on an unrecognized spin
\* configuration.
electronic_magnetization(piece, istep_energies) ==
    IF piece = " \n"
    THEN [act |-> "continue", istep |-> istep_energies, line |-> piece]
    ELSE LET spin_str_lst == split(piece)
         IN IF Len(spin_str_lst) = 1
            THEN [act |-> "continue", line |-> piece,
                  istep |-> appended(istep_energies, to_float(piece))]
            ELSE IF Len(spin_str_lst) = 3
            THEN [act |-> "continue", line |-> piece,
                  istep |-> appended(istep_energies, floats(spin_str_lst))]
            ELSE [act |-> "return", istep |-> istep_energies, line |-> piece]

\* the electronic block of the loop body for the stripped line at n
\* (1-based): lines[i + 2] raises IndexError at the end of the buffer
electronic_block(ls, n, stripped, istep_energies) ==
    IF ~Contains(stripped, "eigenvalue-minimisations")
    THEN [act |-> "continue", istep |-> istep_energies, line |-> stripped]
    ELSE IF n + 2 > Len(ls)
    THEN [act |-> "IndexError", istep |-> istep_energies, line |-> stripped]
    ELSE electronic_magnetization(LastPiece(ls[n + 2], "magnetization"),
                                  istep_energies)

\* [float(lines[i + 4 + atom_index].split()[-1]) for atom_index in
\* range(n_atoms)], i being the 0-based index of the header line
local_moments(ls, i, n_atoms) ==
    Collect([a \in 1..n_atoms |-> raw_token_float(ls, i + 4 + (a - 1), -1)])

\* the try block of the local moments on the line `l` at 0-based index i:
\* the outcome is the new <<x, y, z>>; the first direction whose block
\* raises ValueError ends the block (caught), any other exception escapes
RECURSIVE moments_block(_, _, _, _, _)
\* the end of the loop body for direction d, given the outcome r of its list
moments_read(ls, i, l, st, d, r) ==
    IF r.exc = "ValueError" THEN Return(<<st.x, st.y, st.z>>)
    ELSE IF r.exc # "" THEN r
    ELSE moments_block(ls, i, l,
             [st EXCEPT !.x = IF d = 1 THEN Append(@, r.val) ELSE @,
                        !.y = IF d = 2 THEN Append(@, r.val) ELSE @,
                        !.z = IF d = 3 THEN Append(@, r.val) ELSE @],
             d + 1)

moments_block(ls, i, l, st, d) ==
    IF d > 3 THEN Return(<<st.x, st.y, st.z>>)
    ELSE IF ~Contains(l, "magnetization (" \o <<"x", "y", "z">>[d] \o ")")
    THEN moments_block(ls, i, l, st, d + 1)
    ELSE IF st.n_atoms.none THEN Raise("TypeError")
    ELSE moments_read(ls, i, l, st, d, local_moments(ls, i, st.n_atoms.v))

\* np.array(blocks) assigned to final_mag[:, :, d], an n_steps x n_atoms
\* slice: does the assignment broadcast
Broadcasts(blocks, n_steps, n_atoms) ==
    IF blocks = <<>> THEN n_atoms = 0
    ELSE Len(blocks) = n_steps \/ Len(blocks) = 1

BlockAt(blocks, k) == IF Len(blocks) = 1 THEN blocks[1] ELSE blocks[k]

\* the code after the loop: the outcome is <<mag_lst, final_magmom_lst>>
magnetization_result(st) ==
    IF st.x = <<>> THEN Return(<<st.mag_lst, <<>>>>)
    ELSE IF st.y = <<>> THEN Return(<<st.mag_lst, st.x>>)
    ELSE LET n_steps == Len(st.x)
             n_atoms == st.n_atoms.v
         IN IF n_atoms < 0 \/ ~Broadcasts(st.y, n_steps, n_atoms)
                \/ ~Broadcasts(st.z, n_steps, n_atoms)
            THEN Raise("ValueError")
            ELSE Return(<<st.mag_lst,
                          [k \in 1..n_steps |-> [a \in 1..n_atoms |->
                              <<st.x[k][a], BlockAt(st.y, k)[a], BlockAt(st.z, k)[a]>>]]>>)

\* mutant: the series of the current ionic step is not emptied at the
\* ionic trigger
after_triggers_no_reset(st, stripped) ==
    [st EXCEPT
       !.mag_lst = IF Contains(stripped, IonicTrigger)
                   THEN Append(@, st.istep_energies) ELSE @,
       !.local_spin_trigger = @ \/ Contains(stripped, "Atomic Wigner-Seitz radii")]

\* the tests for the ionic trigger and for the local-moment section at the
\* top of the loop body
after_triggers(st, stripped) ==
    [st EXCEPT
       !.mag_lst = IF Contains(stripped, IonicTrigger)
                   THEN Append(@, st.istep_energies) ELSE @,
       !.istep_energies = IF Contains(stripped, IonicTrigger) THEN <<>> ELSE @,
       !.local_spin_trigger = @ \/ Contains(stripped, "Atomic Wigner-Seitz radii")]

\* n_atoms = int(line.split("NIONS =")[-1]) while n_atoms is None
some_int(r) == IF r.exc # "" THEN r ELSE Return(Some(r.val.v))

nions_read(n_atoms, l) ==
    IF n_atoms.none /\ Contains(l, "NIONS =")
    THEN some_int(to_float(LastPiece(l, "NIONS =")))
    ELSE Return(n_atoms)

\* the end of the loop body, given the outcome m of the local-moment block:
\* the locals the next line starts from, or the exception that escapes
scan_moments(st, m) ==
    IF m.exc # "" THEN [stop |-> TRUE, out |-> m, st |-> st]
    ELSE [stop |-> FALSE, out |-> m,
          st |-> [st EXCEPT !.x = m.val[1], !.y = m.val[2], !.z = m.val[3]]]

\* the loop body from the local-moment block on; l is what `line` holds
scan_local(ls, n, l, st) ==
    scan_moments(st,
        IF st.local_spin_trigger THEN moments_block(ls, n - 1, l, st, 1)
        ELSE Return(<<st.x, st.y, st.z>>))

\* the loop body from the ion-count test on, given its outcome
scan_nions(ls, n, l, st, nions) ==
    IF nions.exc # "" THEN [stop |-> TRUE, out |-> nions, st |-> st]
    ELSE scan_local(ls, n, l, [st EXCEPT !.n_atoms = nions.val])

\* the loop body after the electronic block e
scan_electronic(ls, n, st, e) ==
    IF e.act = "IndexError"
    THEN [stop |-> TRUE, out |-> Raise("IndexError"), st |-> st]
    ELSE IF e.act = "return"
    THEN [stop |-> TRUE, out |-> Return(<<st.mag_lst, <<>>>>), st |-> st]
    ELSE scan_nions(ls, n, e.line, [st EXCEPT !.istep_energies = e.istep],
                    nions_read(st.n_atoms, e.line))

\* the loop body for the line at n, after the tests at its top
scan_line(ls, n, st, stripped) ==
    scan_electronic(ls, n, st,
                    electronic_block(ls, n, stripped, st.istep_energies))

\* the loop body for the line at n (1-based), unless the loop was left on
\* an earlier line
scan_step(ls, n, body) ==
    IF body.stop THEN body
    ELSE scan_line(ls, n, after_triggers(body.st, strip(ls[n])), strip(ls[n]))

\* the loop over the lines lo..hi (1-based), run as its first half followed
\* by its second half
RECURSIVE magnetization_scan(_, _, _, _)
\* the lines lo..hi, unless the loop was left before them
scan_rest(ls, lo, hi, body) ==
    IF body.stop THEN body ELSE magnetization_scan(ls, lo, hi, body)

magnetization_scan(ls, lo, hi, body) ==
    IF lo > hi THEN body
    ELSE IF lo = hi THEN scan_step(ls, lo, body)
    ELSE scan_rest(ls, ((lo + hi) \div 2) + 1, hi,
                   magnetization_scan(ls, lo, (lo + hi) \div 2, body))

\* the code after the loop, or what left the loop
scan_result(body) == IF body.stop THEN body.out ELSE magnetization_result(body.st)

get_magnetization(ls) ==
    scan_result(magnetization_scan(ls, 1, Len(ls),
        [stop |-> FALSE, out |-> Return(<<>>), st |-> MagnetizationStart]))

(***************************************************************************)
(* Outcar.from_file                                                        *)
(***************************************************************************)
\* a numpy array whose number of dimensions matters: its shape and its data
ndarray(shape, data) == [shape |-> shape, data |-> data]

RECURSIVE FloatSum(_)
FloatSum(values) ==
    IF values = <<>> THEN Float(0)
    ELSE LET rest == FloatSum(Tail(values))
         IN IF values[1].nan \/ rest.nan THEN NaN ELSE Float(values[1].v + rest.v)

\* np.average(stresses[:, 0:3], axis=1): the mean over the rows of every
\* 3x3 tensor, one value per column.  The entries are kept as the sums, in
\* units of KBAR_TO_EVA / 3.  An array of no tensors has one dimension, and
\* [:, 0:3] raises IndexError on it.
average_axis_1(stresses) ==
    IF stresses = <<>> THEN Raise("IndexError")
    ELSE Return(ndarray(<<Len(stresses), 3>>,
             [s \in 1..Len(stresses) |->
                 [c \in 1..3 |-> FloatSum([r \in 1..3 |-> stresses[s][r][c]])]]))

\* np.zeros(n)
zeros(n) == ndarray(<<n>>, [k \in 1..n |-> Float(0)])

pressures(stresses, steps) ==
    LET r == average_axis_1(stresses)
    IN IF r.exc = "IndexError" THEN zeros(Len(steps)) ELSE r.val

\* the try block around get_irreducible_kpoints, given the outcome of the call
none_on_value_error(r) ==
    IF r.exc = "ValueError" THEN Return(<<None, None, None>>)
    ELSE IF r.exc # "" THEN r
    ELSE Return(<<Some(r.val[1]), Some(r.val[2]), Some(r.val[3])>>)

kpoints_or_none(ls) == none_on_value_error(get_irreducible_kpoints(ls))

\* the keys from_file assigns, in the order of the assignments
ResultKeys ==
    <<"energies", "energies_int", "energies_zero", "scf_energies", "forces",
      "positions", "cells", "steps", "temperatures", "time", "fermi_level",
      "scf_dipole_moments", "kin_energy_error", "stresses",
      "irreducible_kpoints", "irreducible_kpoint_weights",
      "number_plane_waves", "magnetization", "final_magmoms",
      "broyden_mixing", "n_elect", "e_fermi_list", "vbm_list", "cbm_list",
      "elastic_constants", "energy_components", "resources", "pressures">>

\* the calls of the extractors, in the order from_file makes them; `file`
\* is the content of the file, which get_time reads again
extractor_calls(file) ==
    LET ls == file
        n_atoms == get_number_of_atoms(ls)
    IN <<get_total_energies(ls), get_energy_without_entropy(ls),
         get_energy_sigma_0(ls), get_all_total_energies(ls), n_atoms,
         IF n_atoms.exc = "" THEN get_forces(ls, n_atoms.val.v) ELSE n_atoms,
         IF n_atoms.exc = "" THEN get_positions(ls, n_atoms.val.v) ELSE n_atoms,
         get_cells(ls), get_steps(ls), get_temperatures(ls), get_time(file),
         get_fermi_level(ls), get_dipole_moments(ls),
         get_kinetic_energy_error(ls), get_stresses(ls, FALSE), get_nelect(ls),
         get_band_properties(ls), get_elastic_constants(ls),
         get_energy_components(ls), get_cpu_time(ls), get_user_time(ls),
         get_system_time(ls), get_elapsed_time(ls), get_memory_used(ls),
         kpoints_or_none(ls), get_magnetization(ls),
         get_broyden_mixing_mesh(ls)>>

\* the assignments to parse_dict, given the values the extractors returned
\* (x[k] is the value of the k-th call).  "stresses" is kept in units of
\* KBAR_TO_EVA.
assigned(x) ==
    [key \in Range(ResultKeys) |->
        CASE key = "energies" -> x[1]
          [] key = "energies_int" -> x[2]
          [] key = "energies_zero" -> x[3]
          [] key = "scf_energies" -> x[4]
          [] key = "forces" -> x[6]
          [] key = "positions" -> x[7]
          [] key = "cells" -> x[8]
          [] key = "steps" -> x[9]
          [] key = "temperatures" -> x[10]
          [] key = "time" -> x[11]
          [] key = "fermi_level" -> x[12]
          [] key = "scf_dipole_moments" -> x[13]
          [] key = "kin_energy_error" -> x[14]
          [] key = "stresses" -> x[15]
          [] key = "irreducible_kpoints" -> x[25][1]
          [] key = "irreducible_kpoint_weights" -> x[25][2]
          [] key = "number_plane_waves" -> x[25][3]
          [] key = "magnetization" -> x[26][1]
          [] key = "final_magmoms" -> x[26][2]
          [] key = "broyden_mixing" -> x[27]
          [] key = "n_elect" -> x[16]
          [] key = "e_fermi_list" -> x[17][1]
          [] key = "vbm_list" -> x[17][2]
          [] key = "cbm_list" -> x[17][3]
          [] key = "elastic_constants" -> x[18]
          [] key = "energy_components" -> x[19]
          [] key = "resources" ->
                 [cpu_time |-> x[20], user_time |-> x[21], system_time |-> x[22],
                  elapsed_time |-> x[23], memory_used |-> x[24]]
          [] key = "pressures" -> pressures(x[15], x[9])]

\* dict.update: the keys of `new` are set, the other keys of `old` stay
updated(old, new) ==
    [key \in DOMAIN old \cup DOMAIN new |->
        IF key \in DOMAIN new THEN new[key] ELSE old[key]]

\* how many of the calls from_file makes: all of them, or the calls up to
\* the first one that raises
calls_made(outcomes) ==
    LET failed == {k \in 1..Len(outcomes) : outcomes[k].exc # ""}
    IN IF failed = {} THEN Len(outcomes) ELSE Least(failed)

\* the calls of extractor_calls that open the file themselves: get_time
\* (the 11th) hands no lines to get_steps, so that _get_lines_from_file
\* opens and reads the file
ReopeningCalls == {11}

\* the local n_atoms of from_file: the outcome of get_number_of_atoms, the
\* fifth call, unless an earlier call raised
n_atoms_local(outcomes) ==
    IF calls_made(outcomes) >= 5 THEN outcomes[5] ELSE NotCalled

\* how often from_file opens and reads the file: once at its start, and
\* once in every call made that opens it again
file_opens(outcomes) ==
    1 + Cardinality({k \in ReopeningCalls : k <= calls_made(outcomes)})

\* the end of from_file, given the outcome r of the extractor calls
stored(r, old) ==
    IF r.exc # "" THEN r ELSE Return(updated(old, assigned(r.val)))

\* the outcome of from_file on a dictionary `old`: the exception of the
\* first extractor that raises (nothing is assigned then), or the
\* dictionary after the assignments
from_file(file, old) == stored(Collect(extractor_calls(file)), old)

(***************************************************************************)
(* Outcar.to_hdf, Outcar.to_hdf_minimal and Outcar.from_hdf.  The group of *)
(* the store is a mapping from the keys written to the values written, and *)
(* list_nodes returns its keys.                                            *)
(***************************************************************************)
unique_quantities ==
    <<"kin_energy_error", "broyden_mixing", "stresses", "irreducible_kpoints",
      "irreducible_kpoint_weights", "number_plane_waves", "energy_components",
      "resources">>

\* hdf5_output[key] = self.parse_dict[key] for the keys in `keys`
written_keys(group, dict, keys) ==
    [key \in DOMAIN group \cup keys |->
        IF key \in keys THEN dict[key] ELSE group[key]]

\* mutant: the test for the unique quantities is left out
to_hdf_minimal_every_key(dict, group) == written_keys(group, dict, DOMAIN dict)

\* the group after to_hdf_minimal
to_hdf_minimal(dict, group) ==
    written_keys(group, dict, {key \in DOMAIN dict : key \in Range(unique_quantities)})

\* mutant: the full dump writes the unique quantities only
to_hdf_unique_only(dict, group) ==
    written_keys(group, dict, {key \in DOMAIN dict : key \in Range(unique_quantities)})

\* the group after to_hdf
to_hdf(dict, group) == written_keys(group, dict, DOMAIN dict)

\* parse_dict after from_hdf: for key in list_nodes(): parse_dict[key] =
\* hdf5_output[key]
from_hdf(group, dict) ==
    [key \in DOMAIN dict \cup DOMAIN group |->
        IF key \in DOMAIN group THEN group[key] ELSE dict[key]]

(***************************************************************************)
(* Specification of the step aligner: any two ascending index lists.       *)
(***************************************************************************)
IndexLists == {SortedSeq(S) : S \in SUBSET (0..MaxIndex)}

InitSplit ==
    /\ NoJob
    /\ scan_jj = 0
    /\ parse_dict = <<>>
    /\ outcome = NotCalled
    /\ opened = 0
    /\ hdf = <<>>
    /\ loaded = <<>>
    /\ result = NotCalled
    /\ pc = "start"
    /\ ind_ionic_lst \in IndexLists
    /\ ind_elec_lst \in IndexLists
    /\ ind_combo_lst = <<>>
    /\ lines = <<>>
    /\ trigger = ""
    /\ trigger_indices = <<>>
    /\ line = ""
    /\ cleaned = ""
    /\ si_unit = FALSE
    /\ stress_result = NotCalled
    /\ written = <<>>
    /\ damaged_line = -1

SplitIndices ==
    /\ pc = "start"
    /\ ind_combo_lst' = _split_indices(ind_ionic_lst, ind_elec_lst)
    /\ pc' = "done"
    /\ UNCHANGED <<scan_jj, sqsVars, ind_ionic_lst, ind_elec_lst, lines, trigger,
                   trigger_indices, line, cleaned, stressVars,
                   outcarVars>>

NextSplit == SplitIndices

SpecSplit == InitSplit /\ [][NextSplit]_vars

(***************************************************************************)
(* Specification of the trigger scanner: any short buffer, any pattern.    *)
(***************************************************************************)
ScanChars == {"a", " "}

InitTrigger ==
    /\ NoJob
    /\ scan_jj = 0
    /\ parse_dict = <<>>
    /\ outcome = NotCalled
    /\ opened = 0
    /\ hdf = <<>>
    /\ loaded = <<>>
    /\ result = NotCalled
    /\ pc = "start"
    /\ lines \in SeqsUpTo(StrsUpTo(ScanChars, MaxStrLen), MaxScanLines)
    /\ trigger \in StrsUpTo(ScanChars, MaxTrigLen)
    /\ trigger_indices = <<>>
    /\ ind_ionic_lst = <<>>
    /\ ind_elec_lst = <<>>
    /\ ind_combo_lst = <<>>
    /\ line = ""
    /\ cleaned = ""
    /\ si_unit = FALSE
    /\ stress_result = NotCalled
    /\ written = <<>>
    /\ damaged_line = -1

\* _get_trigger(..., return_lines=True) returns (trigger_indicies, lines)
GetTrigger ==
    /\ pc = "start"
    /\ trigger_indices' = <<_get_trigger(trigger, lines), lines>>
    /\ pc' = "done"
    /\ UNCHANGED <<scan_jj, sqsVars, ind_ionic_lst, ind_elec_lst, ind_combo_lst, lines,
                   trigger, line, cleaned, stressVars,
                   outcarVars>>

NextTrigger == GetTrigger

SpecTrigger == InitTrigger /\ [][NextTrigger]_vars

(***************************************************************************)
(* Specification of the token repair: any short line.                      *)
(***************************************************************************)
CleanChars == {"-", " ", "1"}

InitClean ==
    /\ NoJob
    /\ scan_jj = 0
    /\ parse_dict = <<>>
    /\ outcome = NotCalled
    /\ opened = 0
    /\ hdf = <<>>
    /\ loaded = <<>>
    /\ result = NotCalled
    /\ pc = "start"
    /\ line \in StrsUpTo(CleanChars, MaxCleanLen)
    /\ cleaned = ""
    /\ lines = <<>>
    /\ trigger = ""
    /\ trigger_indices = <<>>
    /\ ind_ionic_lst = <<>>
    /\ ind_elec_lst = <<>>
    /\ ind_combo_lst = <<>>
    /\ si_unit = FALSE
    /\ stress_result = NotCalled
    /\ written = <<>>
    /\ damaged_line = -1

CleanLine ==
    /\ pc = "start"
    /\ cleaned' = _clean_line(line)
    /\ pc' = "done"
    /\ UNCHANGED <<scan_jj, sqsVars, ind_ionic_lst, ind_elec_lst, ind_combo_lst, lines,
                   trigger, trigger_indices, line, stressVars,
                   outcarVars>>

NextClean == CleanLine

SpecClean == InitClean /\ [][NextClean]_vars

(***************************************************************************)
(* Specification of the stress extractor.  The simulation writes a log of  *)
(* up to MaxBlocks stress blocks; the log may then be damaged once (cut    *)
(* short, one line lost, or one field of a numeric row overwritten by a    *)
(* non-numeric token) before get_stresses reads it.                        *)
(***************************************************************************)
\* the Voigt values (XX, YY, ZZ, XY, YZ, ZX) of block b: in eV, in kB
VoigtEv(b) == <<b + 1, b + 2, b + 3, 0 - (b + 4), b + 5, 0 - (b + 6)>>
VoigtKb(b) == [i \in 1..6 |-> 10 * VoigtEv(b)[i] + i]

RECURSIVE JoinTokens(_)
JoinTokens(tokens) ==
    IF tokens = <<>> THEN "" ELSE " " \o Head(tokens) \o JoinTokens(Tail(tokens))

\* a line of the log: its tokens after one blank each, and the line end
LineOf(tokens) == JoinTokens(tokens) \o "\n"

NumTokens(values) == [i \in 1..Len(values) |-> NumStr(values[i])]

\* one stress block as the simulation writes it
StressBlock(b, header, contrib) ==
    <<"  " \o StressTrigger \o "\n">>
    \o (IF header THEN <<LineOf(<<"Direction", "XX", "YY", "ZZ", "XY", "YZ", "ZX">>)>>
        ELSE <<>>)
    \o <<" -----\n">>
    \o [c \in 1..contrib |-> LineOf(<<"Ewald">> \o NumTokens(VoigtEv(b + c)))]
    \o <<" -----\n">>
    \o <<LineOf(<<"Total">> \o NumTokens(VoigtEv(b))),
         LineOf(<<"in", "kB">> \o NumTokens(VoigtKb(b))),
         LineOf(<<"external", "pressure", "=", NumStr(b), "kB">>)>>

BlockShapes == [header : BOOLEAN, contrib : 0..MaxContrib]

RECURSIVE StressLogOf(_, _)
StressLogOf(shapes, b) ==
    IF b > Len(shapes) THEN <<>>
    ELSE StressBlock(b, shapes[b].header, shapes[b].contrib)
             \o StressLogOf(shapes, b + 1)

StressLogs == {StressLogOf(shapes, 1) : shapes \in SeqsUpTo(BlockShapes, MaxBlocks)}

BadTokens == {"x", "1-2"}

InitStress ==
    /\ NoJob
    /\ scan_jj = 0
    /\ parse_dict = <<>>
    /\ outcome = NotCalled
    /\ opened = 0
    /\ hdf = <<>>
    /\ loaded = <<>>
    /\ result = NotCalled
    /\ pc = "written"
    /\ written \in StressLogs
    /\ lines = written
    /\ si_unit \in BOOLEAN
    /\ stress_result = NotCalled
    /\ damaged_line = -1
    /\ ind_ionic_lst = <<>>
    /\ ind_elec_lst = <<>>
    /\ ind_combo_lst = <<>>
    /\ trigger = ""
    /\ trigger_indices = <<>>
    /\ line = ""
    /\ cleaned = ""

\* the job is killed: the log ends after its first n lines
Truncate ==
    /\ pc = "written"
    /\ \E n \in 0..(Len(lines) - 1) : lines' = SubSeq(lines, 1, n)
    /\ pc' = "damaged"
    /\ UNCHANGED <<scan_jj, sqsVars, ind_ionic_lst, ind_elec_lst, ind_combo_lst, trigger,
                   trigger_indices, line, cleaned, si_unit, stress_result,
                   written, damaged_line,
                   outcarVars>>

\* one line of the log is lost
DropLine ==
    /\ pc = "written"
    /\ \E i \in 1..Len(lines) :
          lines' = SubSeq(lines, 1, i - 1) \o SubSeq(lines, i + 1, Len(lines))
    /\ pc' = "damaged"
    /\ UNCHANGED <<scan_jj, sqsVars, ind_ionic_lst, ind_elec_lst, ind_combo_lst, trigger,
                   trigger_indices, line, cleaned, si_unit, stress_result,
                   written, damaged_line,
                   outcarVars>>

\* the 0-based index of the numeric row that belongs to the trigger at j:
\* the row after the second dash-only line at or after j ("Total" row for
\* SI units, "in kB" row otherwise); -1 when the log has no such line
DashLines(ls) == {i \in 0..(Len(ls) - 1) : IsDashOnly(ls[i + 1])}

RowOf(ls, j, si) ==
    LET dashes == DashLines(ls)
        first == {d \in dashes : d >= j}
    IN IF first = {} THEN -1
       ELSE LET second == {d \in dashes : d > Least(first)}
            IN IF second = {} THEN -1
               ELSE LET row == Least(second) + (IF si THEN 1 ELSE 2)
                    IN IF row < Len(ls) THEN row ELSE -1

\* the six fields of a row: tokens 1..6 ("Total" row) or 2..7 ("in kB" row)
FirstField(si) == IF si THEN 1 ELSE 2

RowTokens(ls, row) == split(ls[row + 1])

WellFormedRow(ls, row, si) ==
    /\ row >= 0
    /\ Len(RowTokens(ls, row)) >= FirstField(si) + 6
    /\ \A f \in 1..6 : IsNumber(RowTokens(ls, row)[FirstField(si) + f])

\* one of the six fields of the numeric row of one block is overwritten by
\* a token that is not a number
CorruptRow ==
    /\ pc = "written"
    /\ \E j \in Range(_get_trigger(StressTrigger, lines)) :
          LET row == RowOf(lines, j, si_unit)
          IN /\ WellFormedRow(lines, row, si_unit)
             /\ \E f \in 1..6, bad \in BadTokens :
                   /\ lines' = [lines EXCEPT ![row + 1] =
                         LineOf([RowTokens(lines, row) EXCEPT
                                    ![FirstField(si_unit) + f] = bad])]
                   /\ damaged_line' = row
    /\ pc' = "damaged"
    /\ UNCHANGED <<scan_jj, sqsVars, ind_ionic_lst, ind_elec_lst, ind_combo_lst, trigger,
                   trigger_indices, line, cleaned, si_unit, stress_result,
                   written,
                   outcarVars>>

GetStresses ==
    /\ pc \in {"written", "damaged"}
    /\ stress_result' = get_stresses(lines, si_unit)
    /\ pc' = "done"
    /\ UNCHANGED <<scan_jj, sqsVars, ind_ionic_lst, ind_elec_lst, ind_combo_lst, lines, trigger,
                   trigger_indices, line, cleaned, si_unit, written,
                   damaged_line,
                   outcarVars>>

NextStress == Truncate \/ DropLine \/ CorruptRow \/ GetStresses

SpecStress == InitStress /\ [][NextStress]_vars

(***************************************************************************)
(* Specification of the delimiter scans.  The body of the loop of          *)
(* get_stresses for one trigger, one step of the interpreter at a time:    *)
(* jj starts at the trigger, the first while loop runs to a dash-only      *)
(* line, jj steps over it, the second while loop runs to the next          *)
(* dash-only line, and the row is read.  lines[jj] raises IndexError when  *)
(* jj is the length of the buffer.                                         *)
(***************************************************************************)
Scans == {"first_scan", "second_scan"}

\* mutant: the body of the while loop leaves jj as it is
scan_advance_stuck(jj) == jj

\* jj += 1
scan_advance(jj) == jj + 1

\* jj = j, for a trigger index j of the loop
StartScan ==
    /\ pc \in {"written", "damaged"}
    /\ \E j \in Range(_get_trigger(StressTrigger, lines)) : scan_jj' = j
    /\ pc' = "first_scan"
    /\ UNCHANGED <<sqsVars, ind_ionic_lst, ind_elec_lst, ind_combo_lst, lines,
                   trigger, trigger_indices, line, cleaned, stressVars,
                   outcarVars>>

\* the condition of the while loop holds: the body runs
ScanStep ==
    /\ pc \in Scans
    /\ scan_jj < Len(lines)
    /\ ~IsDashOnly(lines[scan_jj + 1])
    /\ scan_jj' = scan_advance(scan_jj)
    /\ UNCHANGED <<sqsVars, pc, ind_ionic_lst, ind_elec_lst, ind_combo_lst,
                   lines, trigger, trigger_indices, line, cleaned, stressVars,
                   outcarVars>>

\* the condition of the while loop fails at a dash-only line: the first
\* loop is followed by jj += 1, the second by the try block
ScanDelimiter ==
    /\ pc \in Scans
    /\ scan_jj < Len(lines)
    /\ IsDashOnly(lines[scan_jj + 1])
    /\ scan_jj' = (IF pc = "first_scan" THEN scan_jj + 1 ELSE scan_jj)
    /\ pc' = (IF pc = "first_scan" THEN "second_scan" ELSE "row")
    /\ UNCHANGED <<sqsVars, ind_ionic_lst, ind_elec_lst, ind_combo_lst, lines,
                   trigger, trigger_indices, line, cleaned, stressVars,
                   outcarVars>>

\* the condition of the while loop indexes past the last line
ScanPastEnd ==
    /\ pc \in Scans
    /\ scan_jj >= Len(lines)
    /\ stress_result' = Raise("IndexError")
    /\ pc' = "done"
    /\ UNCHANGED <<scan_jj, sqsVars, ind_ionic_lst, ind_elec_lst, ind_combo_lst,
                   lines, trigger, trigger_indices, line, cleaned, si_unit,
                   written, damaged_line, outcarVars>>

\* the try block and the tensor of the row
tensor_of(stress) == IF stress.exc # "" THEN stress ELSE stress_tensor(stress.val)

ReadRow ==
    /\ pc = "row"
    /\ stress_result' = tensor_of(stress_values(lines, scan_jj, si_unit))
    /\ pc' = "done"
    /\ UNCHANGED <<scan_jj, sqsVars, ind_ionic_lst, ind_elec_lst, ind_combo_lst,
                   lines, trigger, trigger_indices, line, cleaned, si_unit,
                   written, damaged_line, outcarVars>>

\* a step of one of the two while loops
Scanning == ScanStep \/ ScanDelimiter \/ ScanPastEnd

NextScan == Truncate \/ DropLine \/ StartScan \/ ScanStep \/ ScanDelimiter
                \/ ScanPastEnd \/ ReadRow

\* the rows are read as from_file reads them, in kBar
InitScan == InitStress /\ si_unit = FALSE

SpecScan == InitScan /\ [][NextScan]_vars

\* the interpreter goes on with a loop it has entered
SpecScanFair == SpecScan /\ WF_vars(Scanning)

(***************************************************************************)
(* Specification of the aggregator.  The simulation writes an OUTCAR log   *)
(* of up to MaxSteps ionic steps, with or without the k-points section and *)
(* the stress blocks; the log may then be damaged once (cut short, or one  *)
(* line lost) before from_file reads it into a fresh Outcar.               *)
(***************************************************************************)
KpointsSection ==
    <<" Subroutine IBZKPT returns following result:\n",
      " ===========================================\n",
      "\n",
      " Found 1 irreducible k-points:\n",
      "\n",
      " Following reciprocal coordinates:\n",
      " Coordinates Weight\n",
      " 0 0 0 1\n",
      "\n">>

NionsLine == " number of ions NIONS = 1\n"

PlaneWavesLine == " k-point  1 : 0 0 0 plane waves: 7\n"

\* the cell of ionic step s
CellBlock(s) ==
    <<" VOLUME and BASIS-vectors are now :\n",
      " -----\n",
      " energy-cutoff : 500\n",
      " volume of cell : 8\n",
      " direct lattice vectors reciprocal lattice vectors\n",
      LineOf(NumTokens(<<s + 1, 0, 0, 1, 0, 0>>)),
      LineOf(NumTokens(<<0, s + 1, 0, 0, 1, 0>>)),
      LineOf(NumTokens(<<0, 0, s + 1, 0, 0, 1>>))>>

\* the position and the force of the one ion at ionic step s
ForceBlock(s) ==
    <<" POSITION TOTAL-FORCE (eV/Angst)\n",
      " -----\n",
      LineOf(NumTokens(<<0, 0, s, s, 0 - s, 0>>)),
      " -----\n">>

\* the energies of ionic step s
EnergyBlock(s) ==
    <<"  " \o IonicTrigger \o "\n",
      " -----\n",
      LineOf(<<"free", "energy", "TOTEN", "=", NumStr(0 - (s + 4)), "eV">>),
      "\n",
      LineOf(<<"energy", "without", "entropy=", NumStr(0 - (s + 3)),
               "energy(sigma->0)", "=", NumStr(0 - (s + 5))>>)>>

RECURSIVE StepsOf(_, _, _)
StepsOf(stress, n, s) ==
    IF s > n THEN <<>>
    ELSE (IF stress THEN StressBlock(s, TRUE, 0) ELSE <<>>)
             \o CellBlock(s) \o ForceBlock(s) \o EnergyBlock(s)
             \o StepsOf(stress, n, s + 1)

OutcarLog(kpoints, stress, n) ==
    (IF kpoints THEN KpointsSection ELSE <<>>)
    \o <<NionsLine>>
    \o (IF kpoints THEN <<PlaneWavesLine>> ELSE <<>>)
    \o StepsOf(stress, n, 1)

OutcarLogs ==
    {OutcarLog(kpoints, stress, n) :
        kpoints \in BOOLEAN, stress \in BOOLEAN, n \in 0..MaxSteps}

InitOutcar ==
    /\ NoJob
    /\ scan_jj = 0
    /\ parse_dict = <<>>
    /\ outcome = NotCalled
    /\ opened = 0
    /\ hdf = <<>>
    /\ loaded = <<>>
    /\ result = NotCalled
    /\ pc = "written"
    /\ written \in OutcarLogs
    /\ lines = written
    /\ si_unit = FALSE
    /\ stress_result = NotCalled
    /\ damaged_line = -1
    /\ ind_ionic_lst = <<>>
    /\ ind_elec_lst = <<>>
    /\ ind_combo_lst = <<>>
    /\ trigger = ""
    /\ trigger_indices = <<>>
    /\ line = ""
    /\ cleaned = ""

\* the call ends: with the exception r carries, or with the dictionary
\* mutant: a call that raises leaves an empty dictionary
Finish_cleared(r) ==
    /\ outcome' = (IF r.exc = "" THEN Return(None) ELSE r)
    /\ parse_dict' = (IF r.exc = "" THEN r.val ELSE <<>>)

Finish(r) ==
    /\ outcome' = (IF r.exc = "" THEN Return(None) ELSE r)
    /\ parse_dict' = (IF r.exc = "" THEN r.val ELSE parse_dict)

\* from_file on the file whose content is `lines`, given the outcomes of
\* the extractor calls
FromFileEnds(calls) ==
    /\ Finish(stored(Collect(calls), parse_dict))
    /\ opened' = opened + file_opens(calls)
    /\ result' = n_atoms_local(calls)

FromFile ==
    /\ pc \in {"written", "damaged"}
    /\ FromFileEnds(extractor_calls(lines))
    /\ pc' = "done"
    /\ UNCHANGED <<scan_jj, sqsVars, ind_ionic_lst, ind_elec_lst, ind_combo_lst, lines, trigger,
                   trigger_indices, line, cleaned, stressVars, hdfVars>>

NextOutcar == Truncate \/ DropLine \/ FromFile

SpecOutcar == InitOutcar /\ [][NextOutcar]_vars

(***************************************************************************)
(* Specification of repeated reads.  An Outcar that has read the log as    *)
(* it was written reads the file again later, when the file may have been  *)
(* damaged; its parse_dict then holds the quantities of the earlier call.  *)
(***************************************************************************)
ReadAgain ==
    /\ pc = "done"
    /\ lines = written
    /\ opened <= MaxOpened
    /\ pc' = "written"
    /\ UNCHANGED <<scan_jj, sqsVars, ind_ionic_lst, ind_elec_lst, ind_combo_lst, lines, trigger,
                   trigger_indices, line, cleaned, stressVars, outcarVars>>

NextAggregate == Truncate \/ DropLine \/ FromFile \/ ReadAgain

SpecAggregate == InitOutcar /\ [][NextAggregate]_vars

(***************************************************************************)
(* Specification of the dumps.  After from_file, the Outcar is written to  *)
(* an empty group of the store, in full or with the unique quantities      *)
(* only, and the group is loaded into a new Outcar.                        *)
(***************************************************************************)
ToHdf ==
    /\ pc = "done"
    /\ hdf' = to_hdf(parse_dict, hdf)
    /\ pc' = "stored"
    /\ UNCHANGED <<scan_jj, sqsVars, ind_ionic_lst, ind_elec_lst, ind_combo_lst, lines, trigger,
                   trigger_indices, line, cleaned, stressVars, parse_dict,
                   outcome, opened, loaded, result>>

ToHdfMinimal ==
    /\ pc = "done"
    /\ hdf' = to_hdf_minimal(parse_dict, hdf)
    /\ pc' = "stored_minimal"
    /\ UNCHANGED <<scan_jj, sqsVars, ind_ionic_lst, ind_elec_lst, ind_combo_lst, lines, trigger,
                   trigger_indices, line, cleaned, stressVars, parse_dict,
                   outcome, opened, loaded, result>>

\* a new Outcar, whose parse_dict is empty, loads the group
FromHdf ==
    /\ pc \in {"stored", "stored_minimal"}
    /\ loaded' = from_hdf(hdf, loaded)
    /\ pc' = (IF pc = "stored" THEN "loaded" ELSE "loaded_minimal")
    /\ UNCHANGED <<scan_jj, sqsVars, ind_ionic_lst, ind_elec_lst, ind_combo_lst, lines, trigger,
                   trigger_indices, line, cleaned, stressVars, parse_dict,
                   outcome, opened, hdf, result>>

NextHdf == Truncate \/ DropLine \/ FromFile \/ ToHdf \/ ToHdfMinimal \/ FromHdf

SpecHdf == InitOutcar /\ [][NextHdf]_vars

(***************************************************************************)
(* Specification of the cell extractor.  The simulation writes a log of up *)
(* to MaxCells cell blocks; the log may then be damaged once (cut short,   *)
(* one line lost, or one token of a row of a cell overwritten) before      *)
(* get_cells reads it.                                                     *)
(***************************************************************************)
CellTrigger == "VOLUME and BASIS-vectors are now :"

RECURSIVE CellLogOf(_, _)
CellLogOf(n, s) == IF s > n THEN <<>> ELSE CellBlock(s) \o CellLogOf(n, s + 1)

CellLogs == {CellLogOf(n, 1) : n \in 0..MaxCells}

\* the part of Init all the specifications of single extractors share
InitExtractor ==
    /\ NoJob
    /\ scan_jj = 0
    /\ parse_dict = <<>>
    /\ outcome = NotCalled
    /\ opened = 0
    /\ hdf = <<>>
    /\ loaded = <<>>
    /\ result = NotCalled
    /\ pc = "written"
    /\ lines = written
    /\ si_unit = FALSE
    /\ stress_result = NotCalled
    /\ damaged_line = -1
    /\ ind_ionic_lst = <<>>
    /\ ind_elec_lst = <<>>
    /\ ind_combo_lst = <<>>
    /\ trigger = ""
    /\ trigger_indices = <<>>
    /\ line = ""
    /\ cleaned = ""

InitCells == written \in CellLogs /\ InitExtractor

\* one token of one of the three rows of one cell block is overwritten by a
\* token that is not a number
CorruptCell ==
    /\ pc = "written"
    /\ \E j \in Range(_get_trigger(CellTrigger, lines)), r \in 5..7 :
          /\ j + r < Len(lines)
          /\ \E f \in 1..Len(split(lines[j + r + 1])), bad \in BadTokens :
                /\ lines' = [lines EXCEPT ![j + r + 1] =
                      LineOf([split(lines[j + r + 1]) EXCEPT ![f] = bad])]
                /\ damaged_line' = j + r
    /\ pc' = "damaged"
    /\ UNCHANGED <<scan_jj, sqsVars, ind_ionic_lst, ind_elec_lst, ind_combo_lst, trigger,
                   trigger_indices, line, cleaned, si_unit, stress_result,
                   written, outcarVars>>

\* the extractor call ends with the outcome r
Extracted(r) ==
    /\ result' = r
    /\ pc' = "done"
    /\ UNCHANGED <<scan_jj, sqsVars, ind_ionic_lst, ind_elec_lst, ind_combo_lst, lines, trigger,
                   trigger_indices, line, cleaned, stressVars, parse_dict,
                   outcome, opened, hdfVars>>

GetCells == pc \in {"written", "damaged"} /\ Extracted(get_cells(lines))

NextCells == Truncate \/ DropLine \/ CorruptCell \/ GetCells

SpecCells == InitCells /\ [][NextCells]_vars

(***************************************************************************)
(* Specification of the extractors of positions and forces.  The           *)
(* simulation writes the ion count (up to MaxAtoms ions) and, for each of  *)
(* up to MaxForceSteps ionic steps, a block with one row of three position *)
(* and three force fields per ion.  The log may be damaged once (cut       *)
(* short, or one line lost) before the extractors read it.                 *)
(***************************************************************************)
ForceTrigger == "TOTAL-FORCE (eV/Angst)"

\* the row of ion a at ionic step s
AtomRow(a, s) == LineOf(NumTokens(<<a, 0, s, s, 0 - a, 0>>))

AtomBlock(n_atoms, s) ==
    <<" POSITION " \o ForceTrigger \o "\n", " -----\n">>
    \o [a \in 1..n_atoms |-> AtomRow(a, s)]
    \o <<" -----\n", " total drift: 0 0 0\n">>

RECURSIVE AtomBlocks(_, _, _)
AtomBlocks(n_atoms, n, s) ==
    IF s > n THEN <<>> ELSE AtomBlock(n_atoms, s) \o AtomBlocks(n_atoms, n, s + 1)

ForceLog(n_atoms, n) ==
    <<" number of ions NIONS = " \o NumStr(n_atoms) \o "\n">>
    \o AtomBlocks(n_atoms, n, 1)

ForceLogs == {ForceLog(n_atoms, n) : n_atoms \in 1..MaxAtoms, n \in 0..MaxForceSteps}

InitForces == written \in ForceLogs /\ InitExtractor

\* get_positions, get_forces and get_positions_and_forces on the buffer,
\* each with its own outcome
position_force_calls(ls, n_atoms) ==
    [positions |-> with_number_of_atoms(ls, n_atoms, "positions"),
     forces |-> with_number_of_atoms(ls, n_atoms, "forces"),
     both |-> with_number_of_atoms(ls, n_atoms, "both")]

GetPositionsAndForces ==
    /\ pc \in {"written", "damaged"}
    /\ Extracted(Return(position_force_calls(lines, get_number_of_atoms(lines))))

NextForces == Truncate \/ DropLine \/ GetPositionsAndForces \/ FromFile

SpecForces == InitForces /\ [][NextForces]_vars

(***************************************************************************)
(* Specification of the elastic-constants extractor.  A log holds up to    *)
(* MaxElastic blocks of elastic moduli (a run writes one); it may be cut   *)
(* short or lose one line before get_elastic_constants reads it.           *)
(***************************************************************************)
ElasticTrigger == "TOTAL ELASTIC MODULI (kBar)"

VoigtLabels == <<"XX", "YY", "ZZ", "XY", "YZ", "ZX">>

\* the modulus in row a and column b of block s, in kBar
ElasticModulus(a, b, s) == IF a = b THEN 100 * s + a ELSE 0 - (a + b)

ElasticRow(a, s) ==
    LineOf(<<VoigtLabels[a]>> \o NumTokens([b \in 1..6 |-> ElasticModulus(a, b, s)]))

ElasticBlock(s) ==
    <<" " \o ElasticTrigger \o "\n",
      " Direction XX YY ZZ XY YZ ZX\n",
      " -----\n">>
    \o [a \in 1..6 |-> ElasticRow(a, s)]
    \o <<" -----\n">>

RECURSIVE ElasticBlocks(_, _)
ElasticBlocks(n, s) ==
    IF s > n THEN <<>> ELSE ElasticBlock(s) \o ElasticBlocks(n, s + 1)

ElasticLog(n) == <<NionsLine>> \o ElasticBlocks(n, 1) \o <<" LOOP+: cpu time 1\n">>

ElasticLogs == {ElasticLog(n) : n \in 0..MaxElastic}

InitElastic == written \in ElasticLogs /\ InitExtractor

GetElasticConstants ==
    /\ pc \in {"written", "damaged"}
    /\ Extracted(get_elastic_constants(lines))

NextElastic == Truncate \/ DropLine \/ GetElasticConstants

SpecElastic == InitElastic /\ [][NextElastic]_vars

(***************************************************************************)
(* Specification of the mixing-mesh extractor.  get_broyden_mixing_mesh is *)
(* a static method that takes any line buffer: the buffers are all lists   *)
(* of up to MaxMeshLines lines of the mesh section of a log.               *)
(***************************************************************************)
MeshTrigger == "gives a total of "

MeshLine(n) == LineOf(<<"NGX", "=", NumStr(n), "NGY", "=", NumStr(n + 1), "NGZ", "=", "2">>)

MeshSectionLines ==
    {MeshLine(n) : n \in 1..MaxMesh}
    \cup {" Broyden mixing: mesh for mixing (old mesh)\n",
          " (NGX = 4 NGY = 4 NGZ = 4)\n",
          " " \o MeshTrigger \o "8 points\n"}

RECURSIVE Buffers(_, _)
Buffers(alphabet, n) ==
    IF n = 0 THEN {<<>>}
    ELSE LET shorter == Buffers(alphabet, n - 1)
         IN shorter \cup {Append(b, l) : b \in {x \in shorter : Len(x) = n - 1},
                                         l \in alphabet}

MeshBuffers == Buffers(MeshSectionLines, MaxMeshLines)

InitMesh == written \in MeshBuffers /\ InitExtractor

GetBroydenMixingMesh ==
    /\ pc = "written"
    /\ Extracted(get_broyden_mixing_mesh(lines))

NextMesh == GetBroydenMixingMesh

SpecMesh == InitMesh /\ [][NextMesh]_vars

(***************************************************************************)
(* Specification of the band extractor.  The simulation writes, for each   *)
(* of up to MaxBandSteps ionic steps, the Fermi level and the band table   *)
(* of one k-point: one table for a run without spin polarization, one per  *)
(* spin component otherwise.  A table has up to MaxBands bands, in any     *)
(* order of energy; the second spin component has the bands of the first,  *)
(* or the same bands all unoccupied.  The log may be damaged once (cut     *)
(* short, or one line lost) before the extractor reads it.                 *)
(***************************************************************************)
BandEnergies == {1, 2}
BandOccupations == {0, 1}

\* the tables: lists of <<energy, occupation>>
BandLists ==
    UNION {[1..n -> BandEnergies \X BandOccupations] : n \in 0..MaxBands}

BandModes == {"none", "same", "empty"}

\* the table of one spin component at ionic step s
BandTable(bands, s) ==
    <<" k-point 1 : 0 0 0\n", "  " \o BandTrigger \o "\n">>
    \o [i \in 1..Len(bands) |->
           LineOf(NumTokens(<<i, bands[i][1] + s, bands[i][2]>>))]
    \o <<"\n">>

SpinComponent(c) == <<" spin component " \o NumStr(c) \o "\n", "\n">>

Emptied(bands) == [i \in 1..Len(bands) |-> <<bands[i][1], 0>>]

\* the lines of ionic step s
BandStep(mode, bands, s) ==
    <<" E-fermi : " \o NumStr(s) \o " XC(G=0): -1 alpha+bet : -2\n", "\n">>
    \o (IF mode = "none" THEN BandTable(bands, s)
        ELSE SpinComponent(1) \o BandTable(bands, s) \o SpinComponent(2)
             \o BandTable(IF mode = "same" THEN bands ELSE Emptied(bands), s))

RECURSIVE BandLogOf(_, _, _, _)
BandLogOf(mode, bands, n, s) ==
    IF s > n THEN <<>>
    ELSE BandStep(mode, bands, s) \o BandLogOf(mode, bands, n, s + 1)

BandLogs ==
    {BandLogOf(mode, bands, n, 1) :
        mode \in BandModes, bands \in BandLists, n \in 0..MaxBandSteps}

InitBand == written \in BandLogs /\ InitExtractor

GetBandProperties ==
    pc \in {"written", "damaged"} /\ Extracted(get_band_properties(lines))

NextBand == Truncate \/ DropLine \/ GetBandProperties

SpecBand == InitBand /\ [][NextBand]_vars

(***************************************************************************)
(* Specification of the extractors of the per-step series.  The simulation *)
(* writes a log of up to MaxIonic ionic steps of up to MaxElec electronic  *)
(* steps each, possibly followed by the electronic steps of an ionic step  *)
(* it did not finish; the run is non-magnetic, collinear or non-collinear. *)
(* The log may then be damaged once (cut short, or the magnetization field *)
(* of one electronic step overwritten) before the extractors read it.      *)
(***************************************************************************)
ElecTrigger == "free energy    TOTEN  ="
EigenTrigger == "eigenvalue-minimisations"
WignerLine == " Atomic Wigner-Seitz radii\n"

SpinModes == {"none", "collinear", "noncollinear"}

\* the magnetization the simulation prints at electronic step t of ionic
\* step s: a non-magnetic run leaves one blank before the line end
MagnetizationField(mode, s, t) ==
    IF mode = "none" THEN " \n"
    ELSE IF mode = "collinear" THEN LineOf(<<NumStr(10 * s + t)>>)
    ELSE LineOf(NumTokens(<<10 * s + t, 0 - s, t>>))

\* the lines of electronic step t of ionic step s
ElecBlock(mode, s, t) ==
    <<" " \o EigenTrigger \o " : 4\n",
      " total energy-change (2. order) : 1\n",
      JoinTokens(<<"number", "of", "electron", "8", "magnetization">>)
          \o MagnetizationField(mode, s, t),
      LineOf(<<"dipolmoment">> \o NumTokens(<<s, 0 - t, s + t>>)
             \o <<"electrons", "x", "Angstroem">>),
      "  " \o ElecTrigger \o " " \o NumStr(0 - (10 * s + t)) \o " eV\n">>

\* the local moments of the one ion in direction d after ionic step s
MomentsBlock(d, s) ==
    <<" magnetization (" \o d \o ")\n",
      "\n",
      "# of ion s p d tot\n",
      "-----\n",
      LineOf(NumTokens(<<1, 0, 0, s, s>>))>>

LocalMoments(mode, s) ==
    IF mode = "none" THEN <<>>
    ELSE IF mode = "collinear" THEN MomentsBlock("x", s)
    ELSE MomentsBlock("x", s) \o MomentsBlock("y", s + 1) \o MomentsBlock("z", s + 2)

\* the energies at the end of ionic step s; a negative number abuts the
\* token before it
IonicBlock(s) ==
    <<"  " \o IonicTrigger \o "\n",
      " -----\n",
      " free energy TOTEN =" \o NumStr(0 - (s + 4)) \o " eV\n",
      "\n",
      " energy without entropy=" \o NumStr(0 - (s + 3))
          \o " energy(sigma->0) =" \o NumStr(0 - (s + 5)) \o "\n">>

\* how many electronic steps ionic step s takes
ElecSteps(s) == 1 + (s % MaxElec)

RECURSIVE ElecBlocks(_, _, _, _)
ElecBlocks(mode, s, t, n) ==
    IF t > n THEN <<>> ELSE ElecBlock(mode, s, t) \o ElecBlocks(mode, s, t + 1, n)

RECURSIVE IonicSteps(_, _, _)
IonicSteps(mode, n, s) ==
    IF s > n THEN <<>>
    ELSE ElecBlocks(mode, s, 1, ElecSteps(s)) \o LocalMoments(mode, s)
             \o IonicBlock(s) \o IonicSteps(mode, n, s + 1)

SeriesLog(mode, n, unfinished) ==
    <<NionsLine, WignerLine>> \o IonicSteps(mode, n, 1)
    \o (IF unfinished THEN ElecBlock(mode, n + 1, 1) ELSE <<>>)

SeriesLogs ==
    {SeriesLog(mode, n, unfinished) :
        mode \in SpinModes, n \in 0..MaxIonic, unfinished \in BOOLEAN}

InitSeries == written \in SeriesLogs /\ InitExtractor

\* what the damage writes after "magnetization": a token that is not a
\* number, or two numbers
BadMagnetizations == {<<"x">>, <<"1", "2">>}

\* the magnetization field of one electronic step is overwritten
CorruptMagnetization ==
    /\ pc = "written"
    /\ \E e \in Range(_get_trigger(EigenTrigger, lines)), bad \in BadMagnetizations :
          /\ e + 2 < Len(lines)
          /\ Contains(lines[e + 3], "magnetization")
          /\ lines' = [lines EXCEPT ![e + 3] =
                LineOf(<<"number", "of", "electron", "8", "magnetization">> \o bad)]
          /\ damaged_line' = e + 2
    /\ pc' = "damaged"
    /\ UNCHANGED <<scan_jj, sqsVars, ind_ionic_lst, ind_elec_lst, ind_combo_lst, trigger,
                   trigger_indices, line, cleaned, si_unit, stress_result,
                   written, outcarVars>>

\* the calls of from_file that extract the per-step series, each with its
\* own outcome
series_calls(ls) ==
    [energies |-> get_total_energies(ls),
     energies_int |-> get_energy_without_entropy(ls),
     energies_zero |-> get_energy_sigma_0(ls),
     scf_energies |-> get_all_total_energies(ls),
     scf_dipole_moments |-> get_dipole_moments(ls),
     magnetization |-> get_magnetization(ls)]

GetSeries == pc \in {"written", "damaged"} /\ Extracted(Return(series_calls(lines)))

NextSeries == Truncate \/ CorruptMagnetization \/ GetSeries

SpecSeries == InitSeries /\ [][NextSeries]_vars

(***************************************************************************)
(* mole_fractions_to_composition(mole_fractions, num_atoms).  A mole       *)
(* fraction is k / FractionSteps and is kept as its numerator k; an        *)
(* occupation x * num_atoms is kept as its numerator over FractionSteps    *)
(* as well, so that an occupation is an integer when FractionSteps divides *)
(* its numerator.  The floats of the source are taken as exact.            *)
(***************************************************************************)
Species == {"Al", "Cu", "Ni"}

RECURSIVE SumOver(_, _)
SumOver(f, S) ==
    IF S = {} THEN 0
    ELSE LET k == CHOOSE x \in S : TRUE IN f[k] + SumOver(f, S \ {k})

\* sum(d.values())
sum_values(d) == SumOver(d, DOMAIN d)

\* the distance of p / FractionSteps to the nearest integer, as a numerator
to_nearest(p) ==
    LET r == p % FractionSteps
    IN IF 2 * r <= FractionSteps THEN r ELSE FractionSteps - r

\* float.is_integer(round(occupation, 1)): the occupation is less than
\* 0.05 away from an integer
is_integer_rounded(p) == 20 * to_nearest(p) < FractionSteps

\* int(round(occ)): the nearest integer, the even one of the two when occ
\* lies halfway
int_round(p) ==
    LET whole == p \div FractionSteps
        r == p % FractionSteps
    IN IF 2 * r < FractionSteps THEN whole
       ELSE IF 2 * r > FractionSteps THEN whole + 1
       ELSE IF whole % 2 = 0 THEN whole ELSE whole + 1

\* lines 85-104: the occupations x * num_atoms, all of them rounded when
\* one of them is not an integer
occupations(fractions, n) ==
    LET occ == [sp \in DOMAIN fractions |-> fractions[sp] * n]
    IN IF \E sp \in DOMAIN occ : ~is_integer_rounded(occ[sp])
       THEN [sp \in DOMAIN occ |-> FractionSteps * int_round(occ[sp])]
       ELSE occ

\* lines 107-129, for the occupations and the species random.choice picks
adjusted(occ, n, removed_species) ==
    LET diff == sum_values(occ) - n * FractionSteps
    IN IF diff = FractionSteps \/ diff = 0 - FractionSteps
       THEN Return([occ EXCEPT ![removed_species] = @ - FractionSteps])
       ELSE IF diff > FractionSteps \/ diff < 0 - FractionSteps
       THEN Raise("ValueError")
       ELSE Return(occ)

mole_fractions_to_composition(fractions, n, removed_species) ==
    IF ~(n * FractionSteps - FractionSteps < sum_values(fractions) * n
            /\ sum_values(fractions) * n < n * FractionSteps + FractionSteps)
    THEN Raise("ValueError")
    ELSE adjusted(occupations(fractions, n), n, removed_species)

(***************************************************************************)
(* Specification of the composition: any mapping of up to three species to *)
(* mole fractions between 0 and 1, any number of atoms up to MaxNumAtoms.  *)
(***************************************************************************)
\* no log is parsed
NoLog ==
    /\ parse_dict = <<>>
    /\ outcome = NotCalled
    /\ opened = 0
    /\ hdf = <<>>
    /\ loaded = <<>>
    /\ result = NotCalled
    /\ lines = <<>>
    /\ written = <<>>
    /\ si_unit = FALSE
    /\ stress_result = NotCalled
    /\ damaged_line = -1
    /\ ind_ionic_lst = <<>>
    /\ ind_elec_lst = <<>>
    /\ ind_combo_lst = <<>>
    /\ trigger = ""
    /\ trigger_indices = <<>>
    /\ line = ""
    /\ cleaned = ""
    /\ scan_jj = 0

MoleFractions ==
    UNION {[chosen -> 0..FractionSteps] : chosen \in (SUBSET Species) \ {{}}}

InitComposition ==
    /\ NoLog
    /\ NoSqsJob
    /\ pc = "start"
    /\ mole_fractions \in MoleFractions
    /\ num_atoms \in 1..MaxNumAtoms
    /\ composition = NotCalled

MoleFractionsToComposition ==
    /\ pc = "start"
    /\ \E removed_species \in DOMAIN mole_fractions :
          composition' = mole_fractions_to_composition(mole_fractions, num_atoms,
                                                       removed_species)
    /\ pc' = "done"
    /\ UNCHANGED <<parserVars, jobVars, mole_fractions, num_atoms>>

NextComposition == MoleFractionsToComposition

SpecComposition == InitComposition /\ [][NextComposition]_vars

(***************************************************************************)
(* SQSJob: the input and its reload from the store.  The store of a job is *)
(* a function from the names of its nodes and groups to their content.     *)
(* The group "input" holds the table of a GenericParameters (rows of a     *)
(* parameter and its value; encoding "0.1.0") or the content of a          *)
(* DataContainer (key -> value; encoding "0.2.0").                         *)
(***************************************************************************)
\* SQSJob.__init__: the input of a new job
DefaultInput ==
    [mole_fractions |-> <<>>, weights |-> None, objective |-> 0,
     iterations |-> 1000000, n_output_structures |-> 1]

\* gp.keys() and gp[k], for the GenericParameters read from the rows
generic_parameters(table) ==
    [k \in {table[i].Parameter : i \in 1..Len(table)} |->
        table[CHOOSE i \in 1..Len(table) : table[i].Parameter = k].Value]

\* mutant: the input is replaced by the parameters read
copied_replacing(old, gp) == gp

\* for k in gp.keys(): self.input[k] = gp[k]
copied_key_by_key(old, gp) ==
    [k \in DOMAIN old \cup DOMAIN gp |-> IF k \in DOMAIN gp THEN gp[k] ELSE old[k]]

\* the version the reload goes by
version_of(store) ==
    IF "HDF_VERSION" \in DOMAIN store THEN store["HDF_VERSION"] ELSE "0.1.0"

\* mutant: a store of an unknown version is passed over
input_from_hdf_lenient(version, group, old) ==
    IF version = "0.1.0"
    THEN Return(copied_key_by_key(old, generic_parameters(group.table)))
    ELSE IF version = "0.2.0" THEN Return(group.data)
    ELSE Return(old)

\* the input after the branch for the version, or the exception
input_from_hdf(version, group, old) ==
    IF version = "0.1.0"
    THEN Return(copied_key_by_key(old, generic_parameters(group.table)))
    ELSE IF version = "0.2.0" THEN Return(group.data)
    ELSE Raise("ValueError")

_backwards_compatible_input_from_hdf(store, old) ==
    input_from_hdf(version_of(store), store["input"], old)

(***************************************************************************)
(* Specification of the reload.  A new job (its input may already have     *)
(* been set) reads its input from a store that a job of this or of an      *)
(* earlier version of the code wrote, or that carries a version tag this   *)
(* code does not know.                                                     *)
(***************************************************************************)
InputKeys == DOMAIN DefaultInput

\* the inputs a job may have stored
StoredInputs(keys) ==
    {[k \in keys |->
         CASE k = "mole_fractions" -> [Al |-> 6, Ni |-> 6]
           [] k = "weights" -> None
           [] k = "objective" -> 0
           [] k = "iterations" -> iterations
           [] k = "n_output_structures" -> n] :
       iterations \in {10, 1000000}, n \in 1..MaxStructures}

\* the parameters the earlier versions of the job had
EarlierKeys ==
    {InputKeys, InputKeys \ {"weights"}, InputKeys \ {"weights", "objective"}}

\* the parameters in the order SQSJob.__init__ sets them
InputOrder ==
    <<"mole_fractions", "weights", "objective", "iterations", "n_output_structures">>

TableOf(kept) ==
    LET keys == SelectSeq(InputOrder, LAMBDA k : k \in DOMAIN kept)
    IN [i \in 1..Len(keys) |-> [Parameter |-> keys[i], Value |-> kept[keys[i]]]]

TableGroups ==
    {[table |-> TableOf(kept)] :
        kept \in UNION {StoredInputs(keys) : keys \in EarlierKeys}}

DataGroups == {[data |-> kept] : kept \in StoredInputs(InputKeys)}

UnknownVersions == {"0.3.0", "0.0.1", ""}

PersistedJobs ==
    {[x \in {"input"} |-> group] : group \in TableGroups}
    \cup {[x \in {"HDF_VERSION", "input"} |->
              IF x = "input" THEN group ELSE "0.1.0"] : group \in TableGroups}
    \cup {[x \in {"HDF_VERSION", "input"} |->
              IF x = "input" THEN group ELSE "0.2.0"] : group \in DataGroups}
    \cup {[x \in {"HDF_VERSION", "input"} |->
              IF x = "input" THEN group ELSE version] :
            group \in TableGroups \cup DataGroups, version \in UnknownVersions}

InitReload ==
    /\ NoLog
    /\ NoComposition
    /\ pc = "created"
    /\ status = "initialized"
    /\ input \in {[DefaultInput EXCEPT !.n_output_structures = n] :
                     n \in 1..MaxStructures}
    /\ structure = 0
    /\ _lst_of_struct = <<>>
    /\ generated = <<>>
    /\ job_outcome = NotCalled
    /\ project_hdf5 \in PersistedJobs

\* the method ends: with the exception r carries, or with the input set
Reloaded(r) ==
    /\ input' = (IF r.exc = "" THEN r.val ELSE input)
    /\ job_outcome' = (IF r.exc = "" THEN Return(None) ELSE r)

BackwardsCompatibleInputFromHdf ==
    /\ pc = "created"
    /\ Reloaded(_backwards_compatible_input_from_hdf(project_hdf5, input))
    /\ pc' = "done"
    /\ UNCHANGED <<parserVars, compositionVars, status, structure,
                   _lst_of_struct, project_hdf5, generated>>

NextReload == BackwardsCompatibleInputFromHdf

SpecReload == InitReload /\ [][NextReload]_vars

(***************************************************************************)
(* SQSJob.run_static and SQSJob.list_structures.  The generator of the     *)
(* structures (sqsgenerator) is outside the source: it returns between one *)
(* and n_output_structures structures, best first; a structure is known by *)
(* its rank.  run_static is modelled one statement at a time.              *)
(***************************************************************************)
\* mutant: the list is handed out whatever the status
list_structures_any_status == _lst_of_struct

\* return self._lst_of_struct if self.status.finished else []
list_structures == IF status = "finished" THEN _lst_of_struct ELSE <<>>

\* "output/structures/structure_" + str(i)
structure_path(i) == "output/structures/structure_" \o NumStr(i)

OutputNodes == {"output/decmp", "output/cycle_time", "output/iterations"}

\* the structures of the store
StructurePaths(store) == {structure_path(i) : i \in 0..MaxStructures} \cap DOMAIN store

\* h5[name] = value
put(store, name, value) ==
    [x \in DOMAIN store \cup {name} |-> IF x = name THEN value ELSE store[x]]

\* the store after the block of lines 393-396
with_outputs(store, decmp, cycle_time, iterations) ==
    put(put(put(store, "output/decmp", decmp), "output/cycle_time", cycle_time),
        "output/iterations", iterations)

(***************************************************************************)
(* Specification of the job.  A job with an input and a structure is run:  *)
(* the framework stores the input and sets the status to running, and      *)
(* run_static generates the structures, writes them and the other outputs  *)
(* to the store and sets the status to finished.  A write to the store may *)
(* fail.                                                                   *)
(***************************************************************************)
JobFractions ==
    {[Al |-> 6, Ni |-> 6], [Al |-> 4, Cu |-> 4, Ni |-> 4], [Al |-> 9, Ni |-> 6]}

InitSqs ==
    /\ NoLog
    /\ NoComposition
    /\ pc = "created"
    /\ status = "initialized"
    /\ input \in {[DefaultInput EXCEPT !.mole_fractions = fractions,
                                       !.n_output_structures = n] :
                     fractions \in JobFractions, n \in 1..MaxStructures}
    /\ structure \in 1..MaxNumAtoms
    /\ _lst_of_struct = <<>>
    /\ generated = <<>>
    /\ job_outcome = NotCalled
    /\ project_hdf5 = <<>>

\* job.run(): the input is stored and run_static is entered
Run ==
    /\ pc = "created"
    /\ status' = "running"
    /\ project_hdf5' = [x \in {"HDF_VERSION", "input"} |->
                           IF x = "input" THEN [data |-> input] ELSE "0.2.0"]
    /\ pc' = "run_static"
    /\ UNCHANGED <<parserVars, compositionVars, input, structure,
                   _lst_of_struct, job_outcome, generated>>

\* lines 381-389: the composition is refused, or the generator returns
GetSqsStructures ==
    /\ pc = "run_static"
    /\ \E removed_species \in DOMAIN input.mole_fractions,
          n \in 1..input.n_output_structures :
          LET composed == mole_fractions_to_composition(
                              input.mole_fractions, structure, removed_species)
          IN IF composed.exc # ""
             THEN /\ job_outcome' = composed
                  /\ pc' = "raised"
                  /\ UNCHANGED <<_lst_of_struct, generated>>
             ELSE /\ generated' = [i \in 1..n |-> [rank |-> i, atoms |-> composed.val]]
                  /\ _lst_of_struct' = generated'
                  /\ pc' = "write_structures"
                  /\ UNCHANGED job_outcome
    /\ UNCHANGED <<parserVars, compositionVars, status, input, structure,
                   project_hdf5>>

\* lines 390-392: one turn of the loop
WriteStructure ==
    /\ pc = "write_structures"
    /\ Cardinality(StructurePaths(project_hdf5)) < Len(_lst_of_struct)
    /\ LET i == Cardinality(StructurePaths(project_hdf5))
       IN project_hdf5' = put(project_hdf5, structure_path(i), _lst_of_struct[i + 1])
    /\ UNCHANGED <<parserVars, compositionVars, pc, status, input, structure,
                   _lst_of_struct, job_outcome, generated>>

\* lines 393-396
WriteOutputs ==
    /\ pc = "write_structures"
    /\ Cardinality(StructurePaths(project_hdf5)) = Len(_lst_of_struct)
    /\ project_hdf5' = with_outputs(project_hdf5,
                                    [i \in 1..Len(generated) |-> "sro"], 1,
                                    input.iterations)
    /\ pc' = "set_finished"
    /\ UNCHANGED <<parserVars, compositionVars, status, input, structure,
                   _lst_of_struct, job_outcome, generated>>

\* a write to the store raises, and run_static ends there
WriteFails ==
    /\ pc = "write_structures"
    /\ job_outcome' = Raise("OSError")
    /\ pc' = "raised"
    /\ UNCHANGED <<parserVars, compositionVars, status, input, structure,
                   _lst_of_struct, project_hdf5, generated>>

\* line 397
SetFinished ==
    /\ pc = "set_finished"
    /\ status' = "finished"
    /\ job_outcome' = Return(None)
    /\ pc' = "done"
    /\ UNCHANGED <<parserVars, compositionVars, input, structure,
                   _lst_of_struct, project_hdf5, generated>>

NextSqs == Run \/ GetSqsStructures \/ WriteStructure \/ WriteOutputs
               \/ WriteFails \/ SetFinished

SpecSqs == InitSqs /\ [][NextSqs]_vars

(***************************************************************************)
(* Properties of the step aligner (checked under SpecSplit).               *)
(***************************************************************************)
NIonic == Len(ind_ionic_lst)

\* the ionic index before bucket k; -1 stands for "before the first line"
PrevIonic(k) == IF k = 1 THEN -1 ELSE ind_ionic_lst[k - 1]

ElecWhere(P(_)) == SelectSeq(ind_elec_lst, P)

BucketOpen(k) ==
    LET inside(e) == PrevIonic(k) < e /\ e < ind_ionic_lst[k]
    IN ElecWhere(inside)

BucketClosed(k) ==
    LET inside(e) == PrevIonic(k) < e /\ e <= ind_ionic_lst[k]
    IN ElecWhere(inside)

BucketsOf(e) == {k \in 1..Len(ind_combo_lst) : e \in Range(ind_combo_lst[k])}

\* C1 as stated: N buckets whose concatenation is the whole electronic list.
C1_ConcatIsWholeList ==
    (pc = "done" /\ NIonic >= 1) =>
        /\ Len(ind_combo_lst) = NIonic
        /\ Flatten(ind_combo_lst) = ind_elec_lst

\* C1 (amended): there are exactly N buckets, and their concatenation in
\* order is the electronic list without the indices that lie at or after the
\* last ionic index or coincide with an ionic index; an ionic step with no
\* electronic index strictly inside its interval has an empty bucket.
C1_ConcatIsKeptSublist ==
    (pc = "done" /\ NIonic >= 1) =>
        LET kept(e) == e < ind_ionic_lst[NIonic] /\ e \notin Range(ind_ionic_lst)
        IN /\ Len(ind_combo_lst) = NIonic
           /\ Flatten(ind_combo_lst) = ElecWhere(kept)
           /\ \A k \in 1..NIonic :
                  (~\E e \in Range(ind_elec_lst) :
                        PrevIonic(k) < e /\ e < ind_ionic_lst[k])
                      => ind_combo_lst[k] = <<>>

C1_Witness ==
    /\ pc = "done"
    /\ NIonic >= 2
    /\ \E k \in 1..NIonic : ind_combo_lst[k] = <<>>
    /\ \E k \in 1..NIonic : Len(ind_combo_lst[k]) >= 2
    /\ Flatten(ind_combo_lst) # ind_elec_lst

\* C2 as stated: bucket k holds exactly the e with i_{k-1} < e <= i_k.
C2_BucketUpperInclusive ==
    (pc = "done" /\ NIonic >= 1) =>
        \A k \in 1..NIonic : ind_combo_lst[k] = BucketClosed(k)

\* C2 (amended): bucket k holds exactly the electronic indices e with
\* i_{k-1} < e < i_k (both bounds exclusive), bucket 1 exactly every e < i_1,
\* and every electronic index lies in at most one bucket.
C2_BucketUpperExclusive ==
    (pc = "done" /\ NIonic >= 1) =>
        /\ Len(ind_combo_lst) = NIonic
        /\ \A k \in 1..NIonic : ind_combo_lst[k] = BucketOpen(k)
        /\ \A e \in Range(ind_elec_lst) : Cardinality(BucketsOf(e)) <= 1

C2_Witness ==
    /\ pc = "done"
    /\ NIonic >= 2
    /\ ind_combo_lst[1] # <<>>
    /\ ind_combo_lst[2] # <<>>
    /\ \E e \in Range(ind_elec_lst) : e \in Range(ind_ionic_lst)

(***************************************************************************)
(* Properties of the trigger scanner (checked under SpecTrigger).          *)
(***************************************************************************)
Matching(ls, trig) ==
    {i \in 0..(Len(ls) - 1) : Contains(strip(ls[i + 1]), trig)}

\* C3: the returned indices are exactly the 0-based indices of the lines
\* whose stripped text contains the pattern, strictly ascending (hence
\* without duplicates), empty when nothing matches, and the buffer is
\* returned as it was given.
C3_TriggerIndicesExact ==
    pc = "done" =>
        LET idx == trigger_indices[1]
        IN /\ Range(idx) = Matching(lines, trigger)
           /\ \A a, b \in 1..Len(idx) : a < b => idx[a] < idx[b]
           /\ (Matching(lines, trigger) = {} => idx = <<>>)
           /\ trigger_indices[2] = lines

C3_Witness ==
    /\ pc = "done"
    /\ trigger_indices[1] = <<1>>
    /\ Len(lines) = 2
    /\ trigger = "a "
    /\ \E i \in 1..Len(lines) :
          Contains(lines[i], trigger) /\ ~Contains(strip(lines[i]), trigger)

(***************************************************************************)
(* Properties of the token repair (checked under SpecClean).               *)
(***************************************************************************)
Dashes(s, i) == Cardinality({j \in 1..i : Char(s, j) = "-"})

\* C4 as stated: a space is inserted only before a '-' that does not
\* already follow whitespace.
C4_SpaceOnlyWhereMissing ==
    pc = "done" => cleaned = clean_line_keep_spaced(line, "")

\* C4 (amended): the output is the input with one space inserted
\* immediately before every '-' character, whether or not that '-' already
\* follows whitespace; every character of the input is kept, in order.
C4_SpaceBeforeEveryDash ==
    pc = "done" =>
        /\ Len(cleaned) = Len(line) + Dashes(line, Len(line))
        /\ \A i \in 1..Len(line) :
              /\ Char(cleaned, i + Dashes(line, i)) = Char(line, i)
              /\ Char(line, i) = "-" =>
                     Char(cleaned, i + Dashes(line, i) - 1) = " "

C4_Witness ==
    /\ pc = "done"
    /\ Contains(line, " -")
    /\ Contains(line, "1-")
    /\ Contains(cleaned, "  -")

(***************************************************************************)
(* Properties of the stress extractor (checked under SpecStress).          *)
(***************************************************************************)
StressTriggers == _get_trigger(StressTrigger, lines)

NaNMatrix == [r \in 1..3 |-> [c \in 1..3 |-> NaN]]

RowField(ls, row, si, f) ==
    Float(NumberValue(RowTokens(ls, row)[FirstField(si) + f]))

\* [[a, d, f], [d, b, e], [f, e, c]] for the row's fields (a, b, c, d, e, f)
VoigtTensor(ls, row, si) ==
    LET a == RowField(ls, row, si, 1)
        b == RowField(ls, row, si, 2)
        c == RowField(ls, row, si, 3)
        d == RowField(ls, row, si, 4)
        e == RowField(ls, row, si, 5)
        f == RowField(ls, row, si, 6)
    IN << <<a, d, f>>, <<d, b, e>>, <<f, e, c>> >>

\* C9: when one of the six fields of the numeric row of a stress block is
\* overwritten by a non-numeric token, get_stresses still returns one tensor
\* per stress trigger, the tensor of every step that reads the overwritten
\* row is the 3x3 all-NaN matrix, and the tensor of every other step is the
\* one obtained from the log as it was written.
C9_CorruptRowIsolated ==
    (pc = "done" /\ damaged_line >= 0) =>
        LET clean == get_stresses(written, si_unit)
            trigs == StressTriggers
        IN /\ clean.exc = ""
           /\ stress_result.exc = ""
           /\ Len(stress_result.val) = Len(trigs)
           /\ \A k \in 1..Len(trigs) :
                 IF RowOf(lines, trigs[k], si_unit) = damaged_line
                 THEN stress_result.val[k] = NaNMatrix
                 ELSE stress_result.val[k] = clean.val[k]

C9_Witness ==
    /\ pc = "done"
    /\ damaged_line >= 0
    /\ stress_result.exc = ""
    /\ Len(stress_result.val) = 2
    /\ stress_result.val[1] = NaNMatrix
    /\ stress_result.val[2] # NaNMatrix

\* C10: when every stress block of the log is well formed get_stresses
\* returns; and whenever it returns, it returns one tensor per trigger, the
\* tensor of every step whose row (after the second dash-only line at or
\* after the trigger) carries six numbers (a, b, c, d, e, f) is exactly
\* [[a, d, f], [d, b, e], [f, e, c]], and every tensor is symmetric.
C10_VoigtTensor ==
    pc = "done" =>
        LET trigs == StressTriggers
        IN /\ (\A k \in 1..Len(trigs) :
                  WellFormedRow(lines, RowOf(lines, trigs[k], si_unit), si_unit))
                 => stress_result.exc = ""
           /\ stress_result.exc = "" =>
                 /\ Len(stress_result.val) = Len(trigs)
                 /\ \A k \in 1..Len(trigs) :
                       LET row == RowOf(lines, trigs[k], si_unit)
                           m == stress_result.val[k]
                       IN /\ WellFormedRow(lines, row, si_unit) =>
                                 m = VoigtTensor(lines, row, si_unit)
                          /\ \A r, c \in 1..3 : m[r][c] = m[c][r]

C10_Witness ==
    /\ pc = "done"
    /\ ~si_unit
    /\ damaged_line = -1
    /\ stress_result.exc = ""
    /\ Len(stress_result.val) = 2
    /\ stress_result.val[1] = << <<Float(21), Float(-46), Float(-64)>>,
                                 <<Float(-46), Float(32), Float(65)>>,
                                 <<Float(-64), Float(65), Float(43)>> >>
    /\ RowOf(lines, StressTriggers[1], si_unit) = 6

(***************************************************************************)
(* Properties of the aggregator (checked under SpecOutcar).                *)
(***************************************************************************)
Called == pc = "done" /\ outcome.exc # "not called"

Returned == Called /\ outcome.exc = ""

HasLineWith(ls, trig) == _get_trigger(trig, ls) # <<>>

\* C5 as stated: whenever the buffer has an ion-count line ("NIONS ="),
\* from_file returns normally and parse_dict holds every quantity key,
\* whatever is malformed, cut off or missing in the other families.
C5_NeverAborts ==
    (Called /\ HasLineWith(lines, "NIONS =")) =>
        /\ outcome.exc = ""
        /\ DOMAIN parse_dict = Range(ResultKeys)

\* C6 as stated: when stresses were read for S steps, "pressures" holds one
\* scalar per step, the mean of the three diagonal elements XX, YY, ZZ of
\* the step's tensor (times the unit factor; the model keeps the sum, in
\* units of a third of the factor).
C6_PressureIsTraceMean ==
    (Returned /\ parse_dict["stresses"] # <<>>) =>
        LET stresses == parse_dict["stresses"]
            S == Len(stresses)
        IN /\ parse_dict["pressures"].shape = <<S>>
           /\ \A s \in 1..S :
                  parse_dict["pressures"].data[s] =
                      FloatSum(<<stresses[s][1][1], stresses[s][2][2],
                                 stresses[s][3][3]>>)

\* C7 as stated: when the log has no stress trigger, "pressures" is an
\* all-zero array with one entry per ionic-step trigger of the log.
C7_ZeroPerIonicStep ==
    (Returned /\ ~HasLineWith(lines, StressTrigger)) =>
        LET n == Len(_get_trigger(IonicTrigger, lines))
        IN /\ parse_dict["pressures"].shape = <<n>>
           /\ \A k \in 1..n : parse_dict["pressures"].data[k] = Float(0)

KpointKeys ==
    {"irreducible_kpoints", "irreducible_kpoint_weights", "number_plane_waves"}

\* the same log with a k-points section in front of it
WithKpointsSection == from_file(KpointsSection \o lines, <<>>)

\* C8 as stated: for a log without the "Subroutine IBZKPT returns following
\* result:" line, from_file sets the three k-point quantities to None and
\* every other quantity is what it is for the same log with a k-points
\* section.  Only logs that parse with the section in front of them are
\* looked at, so that nothing but the missing section can make a difference.
C8_KpointsAbsent ==
    (Called /\ ~HasLineWith(lines, KpointsTrigger)
            /\ WithKpointsSection.exc = "") =>
        /\ outcome.exc = ""
        /\ \A key \in KpointKeys : parse_dict[key].none
        /\ \A key \in Range(ResultKeys) \ KpointKeys :
               parse_dict[key] = WithKpointsSection.val[key]

(***************************************************************************)
(* Properties of the cell extractor (checked under SpecCells).             *)
(***************************************************************************)
\* the cell block (1-based) that holds the line at 0-based index i: the
\* trigger of block b is at 8 * (b - 1) in a written log of cells
CellBlockOf(i) == (i \div 8) + 1

\* the damage put a token that float() rejects into one of the three
\* converted fields of a row
CellTokenRejected ==
    /\ damaged_line >= 0
    /\ floats(PySlice(split(_clean_line(strip(lines[damaged_line + 1]))), 0, 3)).exc
           = "ValueError"

\* the matrices the written log holds, without the one of block b
OtherCells(b) ==
    LET all == get_cells(written).val.v
    IN SubSeq(all, 1, b - 1) \o SubSeq(all, b + 1, Len(all))

\* C11 as stated: when the three-line block of one trigger holds a
\* non-numeric token, only that block is dropped and the cell matrices of
\* all the other steps are still returned.  Logs with more than one cell
\* block are looked at, so that there are other steps.
C11_OtherCellsKept ==
    (pc = "done" /\ CellTokenRejected /\ Len(get_cells(written).val.v) > 1) =>
        /\ result.exc = ""
        /\ ~result.val.none
        /\ result.val.v = OtherCells(CellBlockOf(damaged_line))

(***************************************************************************)
(* The step indexing of the per-step series (SpecSeries)                   *)
(***************************************************************************)
\* the 0-based indices of the ionic triggers of the buffer, ascending
IonicAt == SortedSeq(Matching(lines, IonicTrigger))

\* the index of the ionic trigger before the k-th; -1 before the first
IonicBefore(k) == IF k = 1 THEN -1 ELSE IonicAt[k - 1]

\* the lines holding the pattern trig after ionic trigger k-1 and before
\* ionic trigger k, ascending
StepLines(trig, k) ==
    SortedSeq({e \in Matching(lines, trig) : IonicBefore(k) < e /\ e < IonicAt[k]})

\* the number written as token p of the repaired line at i
TokenValue(i, p) ==
    Float(NumberValue(At(split(_clean_line(strip(lines[i + 1]))), p)))

\* the text after "magnetization" two lines below the line at e
FieldOf(e) == LastPiece(lines[e + 3], "magnetization")

\* the field holds one number or three
Recognized(e) ==
    /\ FieldOf(e) # " \n"
    /\ Len(split(FieldOf(e))) \in {1, 3}
    /\ \A i \in 1..Len(split(FieldOf(e))) : IsNumber(split(FieldOf(e))[i])

\* the field holds a number of tokens other than one or three
Unrecognized(e) ==
    /\ e + 2 < Len(lines)
    /\ FieldOf(e) # " \n"
    /\ Len(split(FieldOf(e))) \notin {1, 3}

FieldValue(e) ==
    LET tokens == split(FieldOf(e))
    IN IF Len(tokens) = 1 THEN Float(NumberValue(tokens[1]))
       ELSE [i \in 1..3 |-> Float(NumberValue(tokens[i]))]

StepEnergies(k) ==
    LET es == StepLines(ElecTrigger, k)
    IN [i \in 1..Len(es) |-> TokenValue(es[i], -2)]

StepDipoles(k) ==
    LET es == StepLines("dipolmoment", k)
    IN [i \in 1..Len(es) |-> [c \in 1..3 |-> TokenValue(es[i], c)]]

StepMagnetization(k) ==
    LET es == SelectSeq(StepLines(EigenTrigger, k), Recognized)
    IN [i \in 1..Len(es) |-> FieldValue(es[i])]

\* the ionic triggers read before the first unrecognized field, all of them
\* when there is none
MagnetizationSteps ==
    LET bad == {e \in Matching(lines, EigenTrigger) : Unrecognized(e)}
    IN IF bad = {} THEN Len(IonicAt)
       ELSE Cardinality({j \in Matching(lines, IonicTrigger) : j <= Least(bad)})

\* the six extractors returned
SeriesReturned ==
    /\ pc = "done"
    /\ result.val.energies.exc = ""
    /\ result.val.energies_int.exc = ""
    /\ result.val.energies_zero.exc = ""
    /\ result.val.scf_energies.exc = ""
    /\ result.val.scf_dipole_moments.exc = ""
    /\ result.val.magnetization.exc = ""

\* the series that have one entry per ionic trigger whenever they return
SeriesIndexed ==
    /\ Len(result.val.energies.val) = Len(IonicAt)
    /\ Len(result.val.energies_int.val) = Len(IonicAt)
    /\ Len(result.val.energies_zero.val) = Len(IonicAt)
    /\ result.val.scf_energies.val = [k \in 1..Len(IonicAt) |-> StepEnergies(k)]
    /\ result.val.scf_dipole_moments.val = [k \in 1..Len(IonicAt) |-> StepDipoles(k)]

RepairedTokens(i) == split(_clean_line(strip(lines[i + 1])))

\* the repaired line at i exists and its token p is a number
NumberAt(i, p) ==
    /\ i < Len(lines)
    /\ InRange(RepairedTokens(i), p)
    /\ IsNumber(At(RepairedTokens(i), p))

\* the energy section of every ionic trigger is well formed: the lines two
\* and four below the trigger hold numbers at the positions read
EnergySectionsWellFormed ==
    \A j \in Matching(lines, IonicTrigger) :
        NumberAt(j + 2, -2) /\ NumberAt(j + 4, 3) /\ NumberAt(j + 4, -1)

\* C13: on a log whose energy sections are well formed,
\* get_total_energies, get_energy_without_entropy and get_energy_sigma_0
\* return three arrays with one entry per ionic trigger; for the k-th
\* trigger, at index j, the entries are the second-to-last token of the
\* repaired line j+2, token 3 of the repaired line j+4 and the last token of
\* the repaired line j+4.
C13_EnergiesAtOffsets ==
    (pc = "done" /\ EnergySectionsWellFormed) =>
        /\ result.val.energies =
              Return([k \in 1..Len(IonicAt) |-> TokenValue(IonicAt[k] + 2, -2)])
        /\ result.val.energies_int =
              Return([k \in 1..Len(IonicAt) |-> TokenValue(IonicAt[k] + 4, 3)])
        /\ result.val.energies_zero =
              Return([k \in 1..Len(IonicAt) |-> TokenValue(IonicAt[k] + 4, -1)])

\* two ionic steps whose negative energies abut the text before them
C13_Witness ==
    /\ pc = "done"
    /\ EnergySectionsWellFormed
    /\ Len(IonicAt) = 2
    /\ Contains(lines[IonicAt[2] + 5], "entropy=-")
    /\ result.val.energies.val = <<Float(-5), Float(-6)>>
    /\ result.val.energies_int.val = <<Float(-4), Float(-5)>>
    /\ result.val.energies_zero.val = <<Float(-6), Float(-7)>>

(***************************************************************************)
(* The dumps (SpecHdf)                                                     *)
(***************************************************************************)
\* C14: when the parse_dict from_file produced is written with to_hdf into
\* an empty group and the group is read with from_hdf into a new Outcar,
\* the new parse_dict has exactly the same keys, and the same value for
\* every key.
C14_RoundTrip ==
    (pc = "loaded" /\ outcome.exc = "") =>
        /\ DOMAIN loaded = DOMAIN parse_dict
        /\ \A key \in DOMAIN parse_dict : loaded[key] = parse_dict[key]

\* a log with a stress block was parsed, dumped in full and loaded
C14_Witness ==
    /\ pc = "loaded"
    /\ outcome.exc = ""
    /\ DOMAIN loaded = Range(ResultKeys)
    /\ loaded["energies"] # <<>>
    /\ loaded["stresses"] = parse_dict["stresses"]
    /\ loaded["stresses"] # <<>>

\* C15: to_hdf_minimal writes exactly the keys of parse_dict that are among
\* the eight unique quantities, each with its parse_dict value; it writes
\* no other key and leaves parse_dict as it is.
C15_MinimalDump ==
    [][pc' = "stored_minimal" =>
          /\ DOMAIN hdf' = DOMAIN hdf \cup
                 (DOMAIN parse_dict \cap
                    {"kin_energy_error", "broyden_mixing", "stresses",
                     "irreducible_kpoints", "irreducible_kpoint_weights",
                     "number_plane_waves", "energy_components", "resources"})
          /\ \A key \in DOMAIN hdf' \ DOMAIN hdf : hdf'[key] = parse_dict[key]
          /\ \A key \in DOMAIN hdf : key \in DOMAIN hdf' /\ hdf'[key] = hdf[key]
          /\ parse_dict' = parse_dict]_vars

\* a parse_dict of all the quantities was dumped: eight keys are in the
\* group, "energies" is not
C15_Witness ==
    /\ pc = "stored_minimal"
    /\ outcome.exc = ""
    /\ "energies" \in DOMAIN parse_dict
    /\ "energies" \notin DOMAIN hdf
    /\ Cardinality(DOMAIN hdf) = 8
    /\ hdf["number_plane_waves"] = parse_dict["number_plane_waves"]
    /\ ~hdf["number_plane_waves"].none

(***************************************************************************)
(* The reads of the log file (SpecOutcar)                                  *)
(***************************************************************************)
\* C16 as stated: during one from_file call the log file is opened and read
\* exactly once, before the first extractor runs, and no extractor from_file
\* invokes reads the file again.  Only the calls that return are looked at.
C16_ReadOnce == (Called /\ outcome.exc = "") => opened = 1

(***************************************************************************)
(* The band extrema (SpecBand)                                             *)
(***************************************************************************)
\* the indices of the "E-fermi" lines: one per ionic step
FermiAt == SortedSeq(Matching(lines, "E-fermi"))

\* the lines of ionic step n: from its "E-fermi" line up to the next one,
\* or up to the last line of the buffer, which is left out
StepSection(n) ==
    IF n = Len(FermiAt) THEN PySlice(lines, FermiAt[n], -1)
    ELSE PySlice(lines, FermiAt[n], FermiAt[n + 1])

\* band_data_per_spin of the steps from step n on, `spin` being
\* is_spin_polarized before step n and fermi the indices of the steps
RECURSIVE ChannelBandsFrom(_, _, _, _)
ChannelBandsRead(ls, fermi, n, table) ==
    <<per_spin_data(table)>> \o ChannelBandsFrom(ls, fermi, n + 1, table.spin)

ChannelBandsFrom(ls, fermi, n, spin) ==
    IF n > Len(fermi) THEN <<>>
    ELSE ChannelBandsRead(ls, fermi, n,
             band_tables_of(IF n = Len(fermi) THEN PySlice(ls, fermi[n], -1)
                            ELSE PySlice(ls, fermi[n], fermi[n + 1]), spin).val)

\* the bands of each spin channel of each ionic step
AllChannelBands == ChannelBandsFrom(lines, FermiAt, 1, FALSE)

ChannelBands(n) == AllChannelBands[n]

\* where the levels of step n are in the list of channel c: a step in which
\* the channel has no band records nothing
LevelIndex(data, n, c) ==
    Cardinality({m \in 1..n : c <= Len(data[m]) /\ data[m][c] # <<>>})

ConductionBands(bands) == {i \in 1..Len(bands) : bands[i][2].v = 0}

OccupiedBands(bands) == {i \in 1..Len(bands) : bands[i][2].v # 0}

LowestEnergy(bands, S) ==
    CHOOSE e \in {bands[i][1].v : i \in S} : \A i \in S : e <= bands[i][1].v

HighestEnergy(bands, S) ==
    CHOOSE e \in {bands[i][1].v : i \in S} : \A i \in S : e >= bands[i][1].v

BandsReturned == pc = "done" /\ result.exc = ""

\* the levels vbm and cbm recorded for a channel with both classes of bands
BothClasses(bands, vbm, cbm) ==
    (ConductionBands(bands) # {} /\ OccupiedBands(bands) # {}) =>
        /\ cbm.v = LowestEnergy(bands, ConductionBands(bands))
        /\ vbm.v = HighestEnergy(bands, OccupiedBands(bands))

\* the levels vbm and cbm recorded for a channel of unoccupied bands
NoneOccupied(bands, vbm, cbm) ==
    (bands # <<>> /\ OccupiedBands(bands) = {}) =>
        /\ vbm = cbm
        /\ cbm.v = LowestEnergy(bands, 1..Len(bands))

ExtremaRecorded(data, vbm, cbm) ==
    \A n \in 1..Len(data) : \A c \in 1..Len(data[n]) :
        BothClasses(data[n][c], vbm[c][LevelIndex(data, n, c)],
                    cbm[c][LevelIndex(data, n, c)])

EmptyChannelsRecorded(data, vbm, cbm) ==
    \A n \in 1..Len(data) : \A c \in 1..Len(data[n]) :
        NoneOccupied(data[n][c], vbm[c][LevelIndex(data, n, c)],
                     cbm[c][LevelIndex(data, n, c)])

\* C17: for every ionic step and spin channel that has conduction bands
\* (|occupation| < 1e-6) and other bands, the recorded CBM is the lowest
\* energy among the conduction bands and the recorded VBM is the highest
\* energy among the other bands.
C17_BandExtrema ==
    BandsReturned => ExtremaRecorded(AllChannelBands, result.val[2], result.val[3])

\* two ionic steps without spin polarization, whose table lists the
\* unoccupied band of energy 1 before the occupied band of energy 2 (plus
\* the step number): the VBM lies above the CBM
C17_Witness ==
    /\ BandsReturned
    /\ lines = written
    /\ Len(FermiAt) = 2
    /\ Len(ChannelBands(2)) = 1
    /\ ChannelBands(2)[1] = <<<<Float(3), Float(0)>>, <<Float(4), Float(1)>>>>
    /\ result.val[3] = <<<<Float(2), Float(3)>>>>
    /\ result.val[2] = <<<<Float(3), Float(4)>>>>

\* C18: for every ionic step, a spin channel all of whose bands are
\* unoccupied (|occupation| < 1e-6) gets a VBM equal to its CBM, both the
\* lowest band energy of the channel.
C18_EmptyChannel ==
    BandsReturned =>
        EmptyChannelsRecorded(AllChannelBands, result.val[2], result.val[3])

\* a spin-polarized step whose second component has the two bands of the
\* first, unoccupied and listed with the higher energy first
C18_Witness ==
    /\ BandsReturned
    /\ lines = written
    /\ Len(FermiAt) = 1
    /\ Len(ChannelBands(1)) = 2
    /\ ChannelBands(1)[1] = <<<<Float(3), Float(1)>>, <<Float(2), Float(1)>>>>
    /\ ChannelBands(1)[2] = <<<<Float(3), Float(0)>>, <<Float(2), Float(0)>>>>
    /\ result.val[2][2] = <<Float(2)>>
    /\ result.val[3][2] = <<Float(2)>>
    /\ result.val[2][1] = <<Float(3)>>

(***************************************************************************)
(* Malformed magnetization fields and the local moments (SpecSeries)       *)
(***************************************************************************)
\* the field below the electronic trigger at e has one token or three, and
\* one of them is not a number
NonNumeric(e) ==
    /\ e + 2 < Len(lines)
    /\ FieldOf(e) # " \n"
    /\ Len(split(FieldOf(e))) \in {1, 3}
    /\ \E i \in 1..Len(split(FieldOf(e))) : ~IsNumber(split(FieldOf(e))[i])

\* the magnetizations written below the electronic triggers after the line e
LaterValues(e) ==
    {FieldValue(later) :
        later \in {t \in Matching(lines, EigenTrigger) : t > e /\ Recognized(t)}}

\* no entry of the series is one of the values
NoneOf(series, values) ==
    \A k \in 1..Len(series) : \A i \in 1..Len(series[k]) : series[k][i] \notin values

\* C19 as stated: when the magnetization field below an electronic trigger
\* holds a token that is not a number, get_magnetization does not raise and
\* returns the series accumulated before that field: no value of a later
\* electronic step is in it.
C19_StopsAtMalformed ==
    \A e \in Matching(lines, EigenTrigger) :
        (pc = "done" /\ NonNumeric(e)) =>
            /\ result.val.magnetization.exc = ""
            /\ NoneOf(result.val.magnetization.val[1], LaterValues(e))

\* the 0-based indices of the headers of the local moments in direction d
MomentHeaders(d) == Matching(lines, "magnetization (" \o d \o ")")

\* nothing but the local moments can make get_magnetization raise or return
\* early: the ion count and the section of the radii are there, every
\* electronic trigger has its field, every field is recognized, and every
\* header of local moments has the row of its ion
MomentsReadable ==
    /\ Len(lines) >= 2
    /\ lines[1] = NionsLine
    /\ lines[2] = WignerLine
    /\ \A e \in Matching(lines, EigenTrigger) : e + 2 < Len(lines) /\ ~Unrecognized(e)
    /\ \A d \in {"x", "y", "z"} : \A h \in MomentHeaders(d) :
           /\ h + 4 < Len(lines)
           /\ split(lines[h + 5]) # <<>>
           /\ IsNumber(At(split(lines[h + 5]), -1))

\* the x-only form: per block of direction x, the moment of each ion
XOnly ==
    LET heads == SortedSeq(MomentHeaders("x"))
    IN [k \in 1..Len(heads) |->
           <<Float(NumberValue(At(split(lines[heads[k] + 5]), -1)))>>]

\* C20 as stated: when there are blocks of direction x and no block of
\* direction y or none of direction z, get_magnetization does not raise
\* and returns the x-only Steps x Atoms form.
C20_XOnlyUnlessYAndZ ==
    (/\ pc = "done"
     /\ MomentsReadable
     /\ MomentHeaders("x") # {}
     /\ (MomentHeaders("y") = {} \/ MomentHeaders("z") = {})) =>
        /\ result.val.magnetization.exc = ""
        /\ result.val.magnetization.val[2] = XOnly

(***************************************************************************)
(* The blocks of positions and forces (SpecForces)                         *)
(***************************************************************************)
\* the ion count written on the first "NIONS =" line
WrittenAtoms == NumberValue(LastPiece(lines[Least(Matching(lines, "NIONS =")) + 1], "NIONS ="))

\* an array of shape steps x atoms x 3
HasShape(array, steps, atoms) ==
    /\ Len(array) = steps
    /\ \A k \in 1..Len(array) :
          /\ Len(array[k]) = atoms
          /\ \A a \in 1..Len(array[k]) : Len(array[k][a]) = 3

\* C21 as stated: whenever the extractors return, each of them consumed
\* the n_atoms lines after every trigger and every row has three position
\* fields and/or three force fields: the positions and the forces have the
\* shape Steps x n_atoms x 3 in each of the three modes.
C21_FixedShape ==
    (pc = "done" /\ outcome = NotCalled
                 /\ result.val.positions.exc = "" /\ result.val.forces.exc = ""
                 /\ result.val.both.exc = "") =>
        LET steps == Cardinality(Matching(lines, ForceTrigger))
        IN /\ HasShape(result.val.positions.val, steps, WrittenAtoms)
           /\ HasShape(result.val.forces.val, steps, WrittenAtoms)
           /\ HasShape(result.val.both.val[1], steps, WrittenAtoms)
           /\ HasShape(result.val.both.val[2], steps, WrittenAtoms)

\* C22: on a log without a "NIONS =" line get_number_of_atoms raises
\* ValueError and from_file ends with that exception, with nothing stored
\* (no atom count is assumed); on a log with such a line the count is the
\* integer after the trigger on the first line that has it.
C22_IonCount ==
    (pc = "done" /\ outcome # NotCalled) =>
        IF Matching(lines, "NIONS =") = {}
        THEN /\ result = Raise("ValueError")
             /\ outcome = Raise("ValueError")
             /\ parse_dict = <<>>
        ELSE result = Return(Float(WrittenAtoms))

\* the line of the ion count was lost from a log with a force block
C22_Witness ==
    /\ pc = "done"
    /\ outcome = Raise("ValueError")
    /\ Matching(lines, "NIONS =") = {}
    /\ Matching(lines, ForceTrigger) # {}
    /\ Len(lines) = Len(written) - 1

\* C29: a from_file that ends with the exception of an extractor leaves
\* parse_dict exactly as it was before the call, and a from_file that
\* returns leaves parse_dict with all 28 result keys, "resources" and
\* "pressures" among them.  (The ValueError of get_irreducible_kpoints is
\* caught inside from_file and does not end the call.)
C29_AllOrNothing ==
    [][FromFile =>
          IF outcome'.exc # "" THEN parse_dict' = parse_dict
          ELSE /\ DOMAIN parse_dict' = Range(ResultKeys)
               /\ Cardinality(DOMAIN parse_dict') = 28
               /\ {"resources", "pressures"} \subseteq DOMAIN parse_dict']_vars

\* the second read raised, and the quantities of the first read are there
C29_Witness ==
    /\ Called
    /\ outcome.exc # ""
    /\ lines # written
    /\ DOMAIN parse_dict = Range(ResultKeys)

\* C29 read word by word: whenever any extractor raises during from_file,
\* the caught ValueError of get_irreducible_kpoints too, parse_dict is left
\* as it was
C29_AnyExtractorRaises ==
    [][(FromFile /\ get_irreducible_kpoints(lines).exc # "")
          => parse_dict' = parse_dict]_vars

(***************************************************************************)
(* Properties of the elastic constants (checked under SpecElastic).        *)
(***************************************************************************)
\* the value in row a and column b of the block below the trigger at j:
\* token b (the label is token 0) of line j + 3 + (a - 1), over 10
ModulusAt(j, a, b) ==
    divided(Float(NumberValue(split(lines[j + 3 + a])[b + 1])), 10)

\* lines j+3 .. j+8 are there and each holds a label and six numbers
ElasticBlockAt(j) ==
    /\ j + 8 < Len(lines)
    /\ \A a \in 1..6 :
          /\ Len(split(lines[j + 3 + a])) = 7
          /\ \A b \in 1..6 : IsNumber(split(lines[j + 3 + a])[b + 1])

\* C25 as stated: with no trigger line or more than one the result is
\* None; with exactly one trigger, at j, the result is the 6x6 block of
\* lines j+3 .. j+8 without the first token of each line, every value
\* divided by 10.
C25_SingleBlock ==
    pc = "done" =>
        LET found == Matching(lines, ElasticTrigger)
        IN IF Cardinality(found) # 1 THEN result = Return(None)
           ELSE /\ result.exc = ""
                /\ ~result.val.none
                /\ Len(result.val.v) = 6
                /\ \A a \in 1..6 :
                      /\ Len(result.val.v[a]) = 6
                      /\ \A b \in 1..6 :
                            result.val.v[a][b] = ModulusAt(Least(found), a, b)

\* on a log whose one block is whole, the result is the block over 10
ElasticWholeBlockRead ==
    (pc = "done" /\ Cardinality(Matching(lines, ElasticTrigger)) = 1
                 /\ ElasticBlockAt(Least(Matching(lines, ElasticTrigger)))) =>
        /\ result.exc = ""
        /\ Len(result.val.v) = 6
        /\ \A a \in 1..6 : \A b \in 1..6 :
              result.val.v[a][b] =
                  ModulusAt(Least(Matching(lines, ElasticTrigger)), a, b)

\* one trigger, and the rows returned are fewer than six
ElasticShortBlock ==
    /\ pc = "done"
    /\ Cardinality(Matching(lines, ElasticTrigger)) = 1
    /\ result.exc = ""
    /\ Len(result.val.v) \in 1..5

(***************************************************************************)
(* Properties of the mixing mesh (checked under SpecMesh).                 *)
(***************************************************************************)
\* the tokens of the line that follow a token "="
AfterEquals(tokens) == [k \in {i \in 2..Len(tokens) : tokens[i - 1] = "="} |-> tokens[k]]

\* every "=" of the line stands alone and is followed by an integer
MeshLineReadable(tokens) ==
    /\ \A i \in 1..Len(tokens) : Contains(tokens[i], "=") => tokens[i] = "="
    /\ tokens = <<>> \/ tokens[Len(tokens)] # "="
    /\ \A k \in DOMAIN AfterEquals(tokens) : IsNumber(tokens[k])

RECURSIVE ProductOver(_, _)
ProductOver(f, S) ==
    IF S = {} THEN 1
    ELSE LET k == CHOOSE x \in S : TRUE
         IN NumberValue(f[k]) * ProductOver(f, S \ {k})

MeshProduct(tokens) == ProductOver(AfterEquals(tokens), DOMAIN AfterEquals(tokens))

\* the 0-based index of the line the call reads, for the first trigger at t
MeshLineRead(t) == IF broyden_line(t) >= 0 THEN broyden_line(t)
                   ELSE Len(lines) + broyden_line(t)

\* C26 as stated: without a trigger line the result is 0 and no exception;
\* with the first trigger at index t >= 2 the result is the product of the
\* integers that follow each "=" on line t-2; and no value is computed from
\* a line at or after the trigger.
C26_MeshAboveTrigger ==
    pc = "done" =>
        LET found == Matching(lines, MeshTrigger)
        IN IF found = {} THEN result = Return(0)
           ELSE /\ (Least(found) >= 2
                       /\ MeshLineReadable(split(lines[Least(found) - 1])))
                    => result = Return(MeshProduct(split(lines[Least(found) - 1])))
                /\ result.exc = "" => MeshLineRead(Least(found)) < Least(found)

\* the first two parts of C26 alone
MeshReadAboveTrigger ==
    pc = "done" =>
        LET found == Matching(lines, MeshTrigger)
        IN IF found = {} THEN result = Return(0)
           ELSE (Least(found) >= 2
                    /\ MeshLineReadable(split(lines[Least(found) - 1])))
                 => result = Return(MeshProduct(split(lines[Least(found) - 1])))

\* a mesh of more than one point was read two lines above the trigger
MeshReadTwoAbove ==
    /\ pc = "done"
    /\ Matching(lines, MeshTrigger) # {}
    /\ Least(Matching(lines, MeshTrigger)) >= 2
    /\ result.exc = ""
    /\ result.val > 1

(***************************************************************************)
(* Properties of the delimiter scans (checked under SpecScanFair).         *)
(***************************************************************************)
\* C27: each of the two scans of get_stresses moves jj on by one line per
\* iteration, reads lines[jj] only for jj < len(lines), and ends: at a
\* dash-only line, or with IndexError when jj is the length of the buffer.
C27_ScansEnd ==
    /\ [][ScanStep => scan_jj' = scan_jj + 1]_vars
    /\ [][(ScanStep \/ ScanDelimiter) => scan_jj < Len(lines)]_vars
    /\ [](pc \in Scans \cup {"row"} => scan_jj <= Len(lines))
    /\ [](pc = "row" => IsDashOnly(lines[scan_jj + 1]))
    /\ (pc = "first_scan")
          ~> (pc = "second_scan"
                 \/ (pc = "done" /\ stress_result = Raise("IndexError")))
    /\ (pc = "second_scan")
          ~> (pc = "row" \/ (pc = "done" /\ stress_result = Raise("IndexError")))

\* a scan that went on line by line ran off the end of a buffer cut short
C27_Witness ==
    /\ pc = "done"
    /\ stress_result = Raise("IndexError")
    /\ scan_jj = Len(lines)
    /\ \E j \in Range(_get_trigger(StressTrigger, lines)) : scan_jj > j + 1

(***************************************************************************)
(* Properties of the composition (checked under SpecComposition).          *)
(***************************************************************************)
\* C28 as stated: whenever mole_fractions_to_composition returns, the
\* counts it returns are integers, none of them is negative, and their sum
\* is num_atoms.
C28_CountsSumToNumAtoms ==
    (pc = "done" /\ composition.exc = "") =>
        /\ \A sp \in DOMAIN composition.val :
              /\ composition.val[sp] % FractionSteps = 0
              /\ composition.val[sp] >= 0
        /\ sum_values(composition.val) = num_atoms * FractionSteps

\* what holds of the counts returned: they are integers, and their sum is
\* num_atoms or, after an atom was removed from a composition that was one
\* atom short, num_atoms - 2
CountsReturned ==
    (pc = "done" /\ composition.exc = "") =>
        /\ \A sp \in DOMAIN composition.val : composition.val[sp] % FractionSteps = 0
        /\ sum_values(composition.val)
               \in {num_atoms * FractionSteps, (num_atoms - 2) * FractionSteps}

(***************************************************************************)
(* Properties of the reload (checked under SpecReload).                    *)
(***************************************************************************)
Tagged == "HDF_VERSION" \in DOMAIN project_hdf5

\* the parameters of the table of the store
TableKeys ==
    {project_hdf5["input"].table[i].Parameter :
        i \in 1..Len(project_hdf5["input"].table)}

\* every row of the table is in the input `after`, whose other keys are
\* the ones of the input `before`, with their values
ReadKeyByKey(before, after) ==
    /\ DOMAIN after = DOMAIN before \cup TableKeys
    /\ \A i \in 1..Len(project_hdf5["input"].table) :
          after[project_hdf5["input"].table[i].Parameter]
              = project_hdf5["input"].table[i].Value
    /\ \A k \in DOMAIN before \ TableKeys : after[k] = before[k]

\* C23: a store without the node HDF_VERSION is read as version "0.1.0":
\* the parameters of the table are copied key by key into the input; the
\* tags "0.1.0" and "0.2.0" are both accepted, the first read the same
\* way, the second by loading the input from the group.
C23_VersionedReload ==
    [][BackwardsCompatibleInputFromHdf =>
          /\ (~Tagged \/ version_of(project_hdf5) = "0.1.0")
                => (job_outcome' = Return(None) /\ ReadKeyByKey(input, input'))
          /\ (Tagged /\ project_hdf5["HDF_VERSION"] = "0.2.0")
                => (job_outcome' = Return(None)
                       /\ input' = project_hdf5["input"].data)]_vars

\* a store without a tag was read, and a key the table lacks was kept
C23_Witness ==
    /\ pc = "done"
    /\ ~Tagged
    /\ job_outcome = Return(None)
    /\ "weights" \notin TableKeys
    /\ input.weights = None
    /\ input.iterations = 10

\* C24: on a store whose HDF_VERSION is neither "0.1.0" nor "0.2.0" the
\* reload raises ValueError and leaves the input of the job as it was.
C24_UnknownVersion ==
    [][(BackwardsCompatibleInputFromHdf /\ Tagged
           /\ project_hdf5["HDF_VERSION"] \notin {"0.1.0", "0.2.0"})
          => (job_outcome' = Raise("ValueError") /\ input' = input)]_vars

\* a store of version "0.3.0" was refused by a job whose input had been set
C24_Witness ==
    /\ pc = "done"
    /\ Tagged
    /\ project_hdf5["HDF_VERSION"] = "0.3.0"
    /\ job_outcome = Raise("ValueError")
    /\ input.n_output_structures = 2

(***************************************************************************)
(* Properties of the job (checked under SpecSqs).                          *)
(***************************************************************************)
\* every generated structure and the three outputs are in the store
OutputsWritten ==
    /\ \A i \in 1..Len(generated) :
          /\ structure_path(i - 1) \in DOMAIN project_hdf5
          /\ project_hdf5[structure_path(i - 1)] = generated[i]
    /\ OutputNodes \subseteq DOMAIN project_hdf5

====
